---------------------------- MODULE Spec2Model ----------------------------
(***************************************************************************)
(* A state-machine model of the dependency graph, the Metropolis / HMC     *)
(* acceptance step, the NUTS doubling loop, the MCMC sampling loop, the    *)
(* lazy-function cache, the children whose likelihoods a step method sums  *)
(* and the tuning of the step methods of the PyMC sources.  The repository *)
(* holds several generations of the same classes (PyMC, PyMC2, pymc, pymc3, *)
(* mcex); each operation below is translated from the generation named in  *)
(* its comment.  Every subsystem has its own specification over the shared *)
(* variables; the variables of the other subsystems stay at their initial  *)
(* values.                                                                 *)
(***************************************************************************)
EXTENDS Integers, Sequences, FiniteSets, TLC

VARIABLES
    \* ---- dependency graph (PyMC2/Node.py, PyMC2/PyMCBase.py, pymc/Node.py)
    generation,     \* which generation of the node classes built the graph
    parents,        \* node -> (key -> parent node or constant)
    has_parents,    \* node -> does the node still have a _parents attribute
    children,       \* node -> set of nodes (back references)
    lazy_args,      \* node -> the parent mapping its lazy function was built on
    graph_err,      \* exception raised by the last graph operation, or "none"
    \* ---- acceptance test (pymc3 arraystep.metrop_select, mcex HMCStep.step)
    sel_in,         \* the inputs of one acceptance test
    sel_out,        \* its outcome, once made
    \* ---- one step method and the stochastic it owns (PyMC/proposition3.py,
    \*      PyMC/GibbsStepMethods.py, PyMC2/sandbox/Normal.py,
    \*      pymc/gp/PyMC_objects.py; the value: PyMC2/PyMCObjects.py)
    sm_class,       \* the class of the step method, "none" before construction
    sm_conjugate,   \* Gibbs.conjugate
    st_value,       \* the stochastic's value
    st_last_value,  \* the stochastic's last_value
    sm_current,     \* SamplingMethod.current
    sm_current_like,\* SamplingMethod.current_like
    sm_accepted,    \* _accepted
    sm_rejected,    \* _rejected
    sm_steps,       \* number of step() calls made so far
    sm_trace,       \* how the last step() went
    \* ---- one NUTS step method (pymc3/step_methods/nuts.py)
    nuts_pc,        \* "none", "idle", "loop" (inside astep's while loop)
    nuts_max_treedepth, \* the max_treedepth option passed in nuts_kwargs
    nuts_logu,      \* log(u) of the current astep
    nuts_j,         \* astep's j: doublings made so far
    nuts_s,         \* astep's s
    nuts_n,         \* astep's n
    nuts_q,         \* "q0" while q is the start point, "q1" once replaced
    nuts_div,       \* did a leaf of the last subtree reach Emax
    nuts_m,         \* NUTS.m, one more than the astep calls completed
    nuts_sub,       \* the newest subtree: energy errors met, U-turns found
    nuts_stats,     \* the sampler statistics the last completed step handed on
    \* ---- the sampling loop (pymc/MCMC.py MCMC.sample, _loop, tune;
    \*      pymc3/sampling.py _iter_sample)
    loop_driver,    \* "none", "MCMC" or "iter_sample"
    status,         \* MCMC.status: "ready", "running", "paused", "halt"
    _current_iter,  \* MCMC._current_iter
    _iter,          \* MCMC._iter
    _burn,          \* MCMC._burn
    _thin,          \* MCMC._thin
    _tune_interval, \* MCMC._tune_interval
    _tuning,        \* MCMC._tuning
    _tuned_count,   \* MCMC._tuned_count
    max_trace_length, \* MCMC.max_trace_length; the length given to strace.setup
    draws,          \* _iter_sample's draws
    tune,           \* _iter_sample's tune
    step_tune,      \* step.tune of the step method _iter_sample drives
    sample_i,       \* _iter_sample's loop index i
    loop_pc,        \* "idle", "check", "tune", "step", "incr", "returned", "raised"
    loop_stepped,   \* step methods whose step() has returned in this iteration
    loop_in_step,   \* the step method inside step(), or "none"
    loop_cur,       \* the calls made so far in this iteration
    loop_done,      \* the last completed iteration and the calls it made
    loop_tallies,   \* tally() / record() calls made in this run
    loop_exit,      \* why control left the loop, "none" while it has not
    last_tune,      \* the latest call of MCMC.tune(): what it found and did
    \* ---- one cache sequence (PyMC2/utils.py _push)
    push_seq,       \* the sequence, position 1 is Python's seq[0]
    push_prev,      \* the sequence as it was before the last _push
    push_new,       \* the entry given to the last _push
    push_hist,      \* every entry pushed so far, newest first

    \* ---- one node's LazyFunction and its cache (PyMC2/PyMCObjects.py
    \*      Node.get_value; PyMC2/utils.py _push)
    lz_parent,      \* the current value of the node's parent
    lz_args,        \* cached parent values, newest first ("none" before init)
    lz_vals,        \* cached results, position by position with lz_args
    lz_calls,       \* calls of the node's user function so far
    lz_gets,        \* get() calls so far
    lz_prev,        \* the previous operation: "none", "set" or "get"
    lz_last,        \* the last get(): what it returned and how

    \* ---- the children a step method sums over (PyMC/proposition3.py
    \*      Merge.__find_ext_children, SamplingMethod; PyMC2/utils.py
    \*      extend_children)
    mb_children,    \* object -> its direct children
    mb_kind,        \* object -> "stochastic", "data" or "deterministic"
    mb_via,         \* which code computed mb_out, "none" before
    mb_out,         \* the children whose log-densities are summed
    \* ---- tuning of the pymc3 step methods (sampling.py, metropolis.py, nuts.py)
    ts_step,        \* the step method of the run: "none", "Metropolis", "NUTS"
    ts_draws,       \* draws of _iter_sample
    ts_tune,        \* tune of _iter_sample, NoTune for None
    ts_i,           \* the loop index i of _iter_sample
    self_tune,      \* Metropolis: self.tune
    self_tune_interval,      \* Metropolis: self.tune_interval
    self_steps_until_tune,   \* Metropolis: self.steps_until_tune
    self_accepted,  \* Metropolis: self.accepted
    self_scaling,   \* Metropolis: self.scaling
    self_m,         \* NUTS: self.m
    self_Hbar,      \* NUTS: (self.m - 1 + self.t0) * self.Hbar
    self_step_size, \* NUTS: self.step_size
    ts_last,        \* the step taken last: its index and what it found
    \* ---- construction of Parameters (PyMC2/PyMCObjects.py)
    par_logp,       \* Parameter -> its log-probability at the initial value
    par_status,     \* Parameter -> "none", "constructed" or the error raised
    par_iters,      \* sampling iterations executed on the model
    \* ---- assignment of step methods (pymc/MCMC.py, pymc3/sampling.py)
    step_method_dict,  \* MCMC: stochastic -> the list of its step methods
    step_methods,   \* MCMC: self.step_methods
    mc_assigned,    \* MCMC: _assign_step_methods has run
    free_RVs,       \* assign_step_methods: model.free_RVs, each one's kind
    assigned_vars,  \* assign_step_methods: the variables of the given steps
    methods_arg,    \* assign_step_methods: the candidate classes
    selected_steps, \* assign_step_methods: variable -> the class selected
    assign_out,     \* assign_step_methods: "returned" or the exception
    \* ---- traces of successive runs (PyMC2/database)
    db_backend,     \* "ram" or "sqlite"
    ram_trace,      \* ram.Trace: self._trace, one array for each run
    sql_rows,       \* sqlite: the rows of the object's table, by recid
    db_runs,        \* the number of values tallied by each sample() call
    db_got,         \* the gettrace call made last and what it returned
    \* ---- repeated rejection (pymc/gp/PyMC_objects.py)
    gp_stochastic,  \* the wrapped method's stochastic: value and last_value
    gp_f,           \* its GP-valued child f: value and last_value
    gp_proposal     \* the proposal made last and the rejects it received

graph_vars == <<generation, parents, has_parents, children, lazy_args, graph_err>>
sel_vars == <<sel_in, sel_out>>
step_vars == <<sm_class, sm_conjugate, st_value, st_last_value, sm_current,
               sm_current_like, sm_accepted, sm_rejected, sm_steps, sm_trace>>

nuts_vars == <<nuts_pc, nuts_max_treedepth, nuts_logu, nuts_j, nuts_s, nuts_n,
               nuts_q, nuts_div, nuts_m, nuts_sub,
               nuts_stats>>

loop_vars == <<loop_driver, status, _current_iter, _iter, _burn, _thin,
               _tune_interval, _tuning, _tuned_count, max_trace_length, draws,
               tune, step_tune, sample_i, loop_pc, loop_stepped, loop_in_step,
               loop_cur, loop_done, loop_tallies, loop_exit, last_tune>>

push_vars == <<push_seq, push_prev, push_new, push_hist>>

lazy_vars == <<lz_parent, lz_args, lz_vals, lz_calls, lz_gets, lz_prev, lz_last>>

blanket_vars == <<mb_children, mb_kind, mb_via, mb_out>>

tuning_vars == <<ts_step, ts_draws, ts_tune, ts_i, self_tune,
                 self_tune_interval, self_steps_until_tune, self_accepted,
                 self_scaling, self_m, self_Hbar, self_step_size, ts_last>>

param_vars == <<par_logp, par_status, par_iters>>

assign_vars == <<step_method_dict, step_methods, mc_assigned, free_RVs,
                 assigned_vars, methods_arg, selected_steps, assign_out>>

db_vars == <<db_backend, ram_trace, sql_rows, db_runs, db_got>>

gp_vars == <<gp_stochastic, gp_f, gp_proposal>>

vars == <<graph_vars, sel_vars, step_vars, nuts_vars, loop_vars, push_vars, lazy_vars, blanket_vars, tuning_vars, param_vars, assign_vars, db_vars, gp_vars>>

\* What the operations of one subsystem leave alone.
graph_others == <<sel_vars, step_vars, nuts_vars, loop_vars, push_vars, lazy_vars, blanket_vars, tuning_vars, param_vars, assign_vars, db_vars, gp_vars>>
sel_others == <<graph_vars, step_vars, nuts_vars, loop_vars, push_vars, lazy_vars, blanket_vars, tuning_vars, param_vars, assign_vars, db_vars, gp_vars>>
step_others == <<graph_vars, sel_vars, nuts_vars, loop_vars, push_vars, lazy_vars, blanket_vars, tuning_vars, param_vars, assign_vars, db_vars, gp_vars>>
nuts_others == <<graph_vars, sel_vars, step_vars, loop_vars, push_vars, lazy_vars, blanket_vars, tuning_vars, param_vars, assign_vars, db_vars, gp_vars>>
loop_others == <<graph_vars, sel_vars, step_vars, nuts_vars, push_vars, lazy_vars, blanket_vars, tuning_vars, param_vars, assign_vars, db_vars, gp_vars>>
push_others == <<graph_vars, sel_vars, step_vars, nuts_vars, loop_vars, lazy_vars, blanket_vars, tuning_vars, param_vars, assign_vars, db_vars, gp_vars>>
lazy_others == <<graph_vars, sel_vars, step_vars, nuts_vars, loop_vars, push_vars, blanket_vars, tuning_vars, param_vars, assign_vars, db_vars, gp_vars>>
blanket_others == <<graph_vars, sel_vars, step_vars, nuts_vars, loop_vars, push_vars, lazy_vars, tuning_vars, param_vars, assign_vars, db_vars, gp_vars>>
tuning_others == <<graph_vars, sel_vars, step_vars, nuts_vars, loop_vars, push_vars, lazy_vars, blanket_vars, param_vars, assign_vars, db_vars, gp_vars>>
param_others == <<graph_vars, sel_vars, step_vars, nuts_vars, loop_vars, push_vars, lazy_vars, blanket_vars, tuning_vars, assign_vars, db_vars, gp_vars>>
assign_others == <<graph_vars, sel_vars, step_vars, nuts_vars, loop_vars, push_vars, lazy_vars, blanket_vars, tuning_vars, param_vars, db_vars, gp_vars>>
db_others == <<graph_vars, sel_vars, step_vars, nuts_vars, loop_vars, push_vars, lazy_vars, blanket_vars, tuning_vars, param_vars, assign_vars, gp_vars>>
gp_others == <<graph_vars, sel_vars, step_vars, nuts_vars, loop_vars, push_vars, lazy_vars, blanket_vars, tuning_vars, param_vars, assign_vars, db_vars>>

-----------------------------------------------------------------------------
(* Dependency graph                                                        *)

Nodes == {"A", "B", "C"}
Keys == {"k1", "k2"}
Const == "const"
ParentVals == Nodes \cup {Const}
ParentMaps == [Keys -> ParentVals]
NoParents == [k \in Keys |-> Const]

\* dict.itervalues() restricted to the values that are nodes
\* (the isinstance(parent, Node) / isinstance(parent, Variable) tests).
NodeValues(m) == {m[k] : k \in Keys} \cap Nodes

\* children.discard(n) for every node in ps
DiscardFrom(ch, ps, n) == [p \in Nodes |-> IF p \in ps THEN ch[p] \ {n} ELSE ch[p]]

\* children.add(n) for every node in ps
AddTo(ch, ps, n) == [p \in Nodes |-> IF p \in ps THEN ch[p] \cup {n} ELSE ch[p]]

GraphInit ==
    /\ generation = "none"
    /\ parents = [n \in Nodes |-> NoParents]
    /\ has_parents = [n \in Nodes |-> TRUE]
    /\ children = [n \in Nodes |-> {}]
    /\ lazy_args = [n \in Nodes |-> NoParents]
    /\ graph_err = "none"

\* gen_lazy_function called without the new mapping in place: the lazy
\* function keeps the arguments it was built on.
gen_lazy_function_before_install(n, installed) == lazy_args[n]

\* PyMC2/PyMCObjects.py Node.gen_lazy_function / Parameter.gen_lazy_function:
\* a new LazyFunction whose arguments are the owner's parents mapping as it
\* is at the time of the call (Parameter takes self.parents.copy()).
gen_lazy_function(n, installed) == installed

\* The three constructors.  Each builds the nodes with constant parents, so
\* the loop that adds self to the parents' children finds nothing to add;
\* the generation of the classes is fixed for the rest of the run.
Construct(g) ==
    /\ generation = "none"
    /\ generation' = g
    /\ UNCHANGED <<parents, has_parents, children, lazy_args, graph_err>>
    /\ UNCHANGED graph_others

\* PyMC2/PyMCBase.py PyMCBase.__init__
PyMCBase_init == Construct("PyMCBase")

\* PyMC2/Node.py Node.__init__
PyMC2_Node_init == Construct("PyMC2")

\* pymc/Node.py Node.__init__ (through Variable.__init__)
pymc_Node_init == Construct("pymc")

\* pymc/Node.py Node._set_parents: discard self from the old parents (only
\* if a _parents attribute exists), install the new mapping, add self to the
\* new parents, regenerate the lazy function.
pymc_set_parents(n, new) ==
    LET old == IF has_parents[n] THEN NodeValues(parents[n]) ELSE {}
        ch1 == DiscardFrom(children, old, n)
    IN  /\ generation = "pymc"
        /\ parents' = [parents EXCEPT ![n] = new]
        /\ has_parents' = [has_parents EXCEPT ![n] = TRUE]
        /\ children' = AddTo(ch1, NodeValues(new), n)
        /\ lazy_args' = [lazy_args EXCEPT ![n] = gen_lazy_function(n, new)]
        /\ graph_err' = "none"
        /\ UNCHANGED generation
        /\ UNCHANGED graph_others

\* PyMC2/Node.py Node._set_parents: discard self from the old parents,
\* install ParentDict(new_parents) (PyMC2/PyMCBase.py ParentDict.__init__
\* only copies the mapping), regenerate the lazy function.  The new parents'
\* children sets are not touched.  Without a _parents attribute the first
\* line raises AttributeError.
PyMC2_set_parents(n, new) ==
    /\ generation = "PyMC2"
    /\ UNCHANGED generation
    /\ UNCHANGED graph_others
    /\ IF has_parents[n]
       THEN /\ children' = DiscardFrom(children, NodeValues(parents[n]), n)
            /\ parents' = [parents EXCEPT ![n] = new]
            /\ lazy_args' = [lazy_args EXCEPT ![n] = gen_lazy_function(n, new)]
            /\ graph_err' = "none"
            /\ UNCHANGED has_parents
       ELSE /\ graph_err' = "AttributeError"
            /\ UNCHANGED <<parents, has_parents, children, lazy_args>>

\* PyMC2/Node.py Node._del_parents: discard self from every parent, delete
\* the _parents attribute.
PyMC2_del_parents(n) ==
    /\ generation = "PyMC2"
    /\ UNCHANGED generation
    /\ UNCHANGED graph_others
    /\ IF has_parents[n]
       THEN /\ children' = DiscardFrom(children, NodeValues(parents[n]), n)
            /\ parents' = [parents EXCEPT ![n] = NoParents]
            /\ has_parents' = [has_parents EXCEPT ![n] = FALSE]
            /\ graph_err' = "none"
            /\ UNCHANGED lazy_args
       ELSE /\ graph_err' = "AttributeError"
            /\ UNCHANGED <<parents, has_parents, children, lazy_args>>

\* The loop of ParentDict.__setitem__ that decides whether the owner claims
\* old_parent only through `key`.  item = (key, value) of iteritems(); the
\* code tests item[0] (the KEY) for identity with old_parent and item[1]
\* (the VALUE) for inequality with key.  A key is never a node and a value
\* never equals a key, so the loop never clears the flag.
only_reference(m, key, old_parent) ==
    ~ \E k \in Keys : k = old_parent /\ m[k] # key

\* isinstance(x, PyMCBase): the nodes of PyMC2/PyMCObjects.py derive from
\* PyMCBase, those of PyMC2/Node.py derive from object.
isinstance_PyMCBase(x) == x \in Nodes /\ generation = "PyMCBase"

\* PyMC2/PyMCBase.py ParentDict.__setitem__.  Item assignment on a node's
\* parents reaches it in the generations that install this ParentDict.
ParentDict_setitem(n, key, new_parent) ==
    LET m == parents[n]
        old_parent == m[key]
        removes == isinstance_PyMCBase(old_parent) /\ only_reference(m, key, old_parent)
        adds == IF isinstance_PyMCBase(new_parent) THEN {new_parent} ELSE {}
    IN  /\ generation \in {"PyMCBase", "PyMC2"}
        /\ UNCHANGED generation
        /\ UNCHANGED graph_others
        /\ has_parents[n]
        /\ IF removes /\ n \notin children[old_parent]
           THEN \* set.remove raises KeyError before anything is changed
                /\ graph_err' = "KeyError"
                /\ UNCHANGED <<parents, has_parents, children, lazy_args>>
           ELSE LET ch1 == IF removes THEN DiscardFrom(children, {old_parent}, n)
                                      ELSE children
                    m2 == [m EXCEPT ![key] = new_parent]
                IN  /\ children' = AddTo(ch1, adds, n)
                    /\ parents' = [parents EXCEPT ![n] = m2]
                    /\ lazy_args' = [lazy_args EXCEPT ![n] = gen_lazy_function(n, m2)]
                    /\ graph_err' = "none"
                    /\ UNCHANGED has_parents

\* The mappings a caller may assign to n: any parents but n itself.
NewMaps(n) == [Keys -> ParentVals \ {n}]

GraphNext ==
    \/ PyMCBase_init
    \/ PyMC2_Node_init
    \/ pymc_Node_init
    \/ \E n \in Nodes : \E new \in NewMaps(n) : pymc_set_parents(n, new)
    \/ \E n \in Nodes : \E new \in NewMaps(n) : PyMC2_set_parents(n, new)
    \/ \E n \in Nodes : PyMC2_del_parents(n)
    \/ \E n \in Nodes, key \in Keys : \E p \in ParentVals \ {n} :
          ParentDict_setitem(n, key, p)


\* C1: for all nodes A and B, A is a value of B's parents mapping if and
\* only if B is a member of A.children, after any sequence of parent
\* reassignments.
DependencySymmetry ==
    \A a \in Nodes, b \in Nodes :
        (has_parents[b] /\ a \in NodeValues(parents[b])) <=> (b \in children[a])

\* A step of the graph in which node n's parent under `key` was replaced
\* by a different one without an exception (ParentDict.__setitem__, or a
\* whole-mapping assignment through pymc Node._set_parents).
Replaced(n, key) ==
    /\ generation \in {"PyMCBase", "pymc"}
    /\ generation' = generation
    /\ graph_err' = "none"
    /\ has_parents[n]
    /\ parents[n][key] \in Nodes
    /\ parents'[n][key] # parents[n][key]
    /\ n \in children[parents[n][key]]

\* C11: when the parent under one key of a node's parent mapping is
\* replaced, the node is removed from the old parent's children set if and
\* only if the old parent is not referenced under any other key of that
\* mapping; if it still is, the node stays in the old parent's children.
RemovedIffUnreferenced ==
    [][\A n \in Nodes, key \in Keys :
         Replaced(n, key) =>
            LET old_parent == parents[n][key]
            IN  (n \notin children'[old_parent])
                   <=> ~ \E k \in Keys \ {key} : parents'[n][k] = old_parent]_vars

DetachedDespiteMismatch(n, p) ==
    /\ has_parents[n]
    /\ p \in NodeValues(parents[n])
    /\ n \notin children[p]
    /\ ~has_parents'[n] \/ p \notin NodeValues(parents'[n])
    /\ graph_err' = "none"

\* C23: a parent reassignment or deletion that finds the node missing from
\* the children set of a parent it is detaching from fails with an error:
\* no such step completes silently.
MismatchRaises ==
    [][\A n \in Nodes, p \in Nodes : ~DetachedDespiteMismatch(n, p)]_vars

-----------------------------------------------------------------------------
(* Acceptance test: pymc3 arraystep.metrop_select, reached through         *)
(* HamiltonianMC.astep, and the test at the end of mcex HMCStep.step.      *)
(* Floating-point values are modelled as IEEE doubles restricted to small  *)
(* integers, the two infinities and NaN.                                   *)

MaxMag == 2
Fin(n) == [k |-> "fin", v |-> n]
NaN == [k |-> "nan", v |-> 0]
PInf == [k |-> "pinf", v |-> 0]
NInf == [k |-> "ninf", v |-> 0]
Floats == {Fin(n) : n \in -MaxMag..MaxMag} \cup {NaN, PInf, NInf}

\* np.isfinite
isfinite(x) == x.k = "fin"

\* IEEE negation, addition and subtraction
FNeg(x) ==
    CASE x.k = "fin" -> Fin(-x.v)
      [] x.k = "pinf" -> NInf
      [] x.k = "ninf" -> PInf
      [] OTHER -> NaN

FAdd(x, y) ==
    CASE x.k = "nan" \/ y.k = "nan" -> NaN
      [] x.k = "fin" /\ y.k = "fin" -> Fin(x.v + y.v)
      [] x.k = "fin" -> y
      [] y.k = "fin" -> x
      [] x.k = y.k -> x
      [] OTHER -> NaN

FSub(x, y) == FAdd(x, FNeg(y))

\* IEEE x < y: false as soon as either side is NaN
FLess(x, y) ==
    CASE x.k = "nan" \/ y.k = "nan" -> FALSE
      [] x.k = "pinf" -> FALSE
      [] x.k = "ninf" -> y.k # "ninf"
      [] y.k = "pinf" -> TRUE
      [] y.k = "ninf" -> FALSE
      [] OTHER -> x.v < y.v

\* np.log(uniform()): uniform() is in [0, 1), so the log is negative or -inf
LogUniform == {NInf} \cup {Fin(n) : n \in -MaxMag..-1}

Points == 0..2
KEnergies == 0..1

\* A variant of metrop_select that leaves out the np.isfinite test.
metrop_select_no_isfinite(mr, logu, q, q0) ==
    IF FLess(logu, mr) THEN <<q, TRUE>> ELSE <<q0, FALSE>>

\* pymc3/step_methods/arraystep.py metrop_select
metrop_select(mr, logu, q, q0) ==
    IF isfinite(mr) /\ FLess(logu, mr) THEN <<q, TRUE>> ELSE <<q0, FALSE>>

\* The arguments of one test: which step method makes it (via), the energies
\* or log-probabilities at the start (e0) and at the end (e1) of the
\* trajectory, the kinetic energies (mcex only), log(uniform()), the
\* proposed point q and the current point q0.
SelInputs ==
    [via : {"pymc3"}, e0 : Floats, e1 : Floats, k0 : {0}, k1 : {0},
     logu : LogUniform, q : Points, q0 : Points]
    \cup
    [via : {"mcex"}, e0 : Floats, e1 : Floats, k0 : KEnergies, k1 : KEnergies,
     logu : LogUniform, q : Points, q0 : Points]

NoOutcome == [done |-> FALSE, mr |-> Fin(0), point |-> 0, accepted |-> FALSE]

\* No test is being made (the other subsystems' specifications).
SelIdle ==
    /\ sel_in = [via |-> "none", e0 |-> Fin(0), e1 |-> Fin(0), k0 |-> 0, k1 |-> 0,
                 logu |-> NInf, q |-> 0, q0 |-> 0]
    /\ sel_out = NoOutcome

SelInit ==
    /\ sel_in \in SelInputs
    /\ sel_out = NoOutcome

\* pymc3/step_methods/hmc/hmc.py HamiltonianMC.astep: the leapfrog result
\* (q, current_energy) and the initial energy are inputs.
HamiltonianMC_astep ==
    LET initial_energy == sel_in.e0
        current_energy == sel_in.e1
        energy_change == FSub(initial_energy, current_energy)
        r == metrop_select(energy_change, sel_in.logu, sel_in.q, sel_in.q0)
    IN  /\ sel_in.via = "pymc3"
        /\ ~sel_out.done
        /\ sel_out' = [done |-> TRUE, mr |-> energy_change, point |-> r[1],
                       accepted |-> r[2]]
        /\ UNCHANGED sel_in
        /\ UNCHANGED sel_others

\* mcex/hmc.py HMCStep.step, lines 64-74: the log-probabilities at the start
\* and at the end of the trajectory and the two kinetic energies are
\* inputs; chain_state.accept() keeps q, chain_state.reject() keeps q0.
HMCStep_step ==
    LET start_logp == sel_in.e0
        current_logp == sel_in.e1
        log_metrop_ratio ==
            FSub(FAdd(FSub(FNeg(start_logp), FNeg(current_logp)), Fin(sel_in.k0)),
                 Fin(sel_in.k1))
        acc == isfinite(log_metrop_ratio) /\ FLess(sel_in.logu, log_metrop_ratio)
    IN  /\ sel_in.via = "mcex"
        /\ ~sel_out.done
        /\ sel_out' = [done |-> TRUE, mr |-> log_metrop_ratio,
                       point |-> IF acc THEN sel_in.q ELSE sel_in.q0,
                       accepted |-> acc]
        /\ UNCHANGED sel_in
        /\ UNCHANGED sel_others

SelNext ==
    \/ HamiltonianMC_astep
    \/ HMCStep_step

\* The log acceptance ratio as a number, when every input is finite:
\* initial minus final energy (pymc3), or final minus initial
\* log-probability plus initial minus final kinetic energy (mcex).
RatioOf(t) ==
    IF t.via = "pymc3" THEN t.e0.v - t.e1.v
    ELSE t.e1.v - t.e0.v + t.k0 - t.k1

\* C2: a proposal is accepted if and only if the log acceptance ratio is
\* finite and log(u) is strictly below it; in every other case (NaN or
\* infinite ratio included) it is rejected and the current point is kept.
AcceptIffFiniteAndBelow ==
    sel_out.done =>
        /\ sel_out.accepted <=>
              /\ isfinite(sel_in.e0) /\ isfinite(sel_in.e1)
              /\ \/ sel_in.logu.k = "ninf"
                 \/ sel_in.logu.v < RatioOf(sel_in)
        /\ sel_out.point = IF sel_out.accepted THEN sel_in.q ELSE sel_in.q0

\* C2 witness: a test with an infinite ratio has been made and rejected,
\* leaving the current point in place although a different one was proposed.
InfiniteRatioRejected ==
    /\ sel_out.done
    /\ sel_in.via = "pymc3"
    /\ sel_out.mr = PInf
    /\ sel_in.q # sel_in.q0
    /\ ~sel_out.accepted
    /\ sel_out.point = sel_in.q0

-----------------------------------------------------------------------------
(* One Metropolis-type step method and its stochastic.  The stochastic's   *)
(* value is an integer; its log-probability is finite on 0..MaxVal and the *)
(* zero-probability signal elsewhere.                                      *)

MaxVal == 2
MaxSteps == 3
Support == 0..MaxVal
Candidates == -1..(MaxVal + 1)
Deltas == {-1, 1}
StepLogU == {-3, -1}

\* Parameter.d_neg_inf, the threshold below which get_logp raises
\* (-1.79E308 in the source; any number below every finite log-probability
\* of the model plays its part).
d_neg_inf == -1000

\* The user's log-probability function: own log-density plus the
\* children's, -2 v on the support.
logp_fun(v) == IF v \in Support THEN -2 * v ELSE d_neg_inf

\* PyMC2/PyMCObjects.py Parameter.get_logp raises ZeroProbability
\* (proposition3: the likelihood raises LikelihoodError) at such a value.
ZeroProbability(v) == logp_fun(v) <= d_neg_inf

\* A variant of set_value that forgets to save the current value.
set_value_keeps_last(value, last_value, new) ==
    [value |-> new, last_value |-> last_value]

\* PyMC2/PyMCObjects.py Parameter.set_value: save the current value as
\* last_value, then take the new one.
set_value(value, last_value, new) ==
    [value |-> new, last_value |-> value]

\* Stochastic.revert(), which replaced "f.value = f.last_value" in the
\* reject methods: the value goes back to last_value.
revert(value, last_value) ==
    [value |-> last_value, last_value |-> last_value]

NoStep == [outcome |-> "none", before |-> 0, cand |-> 0, zero |-> FALSE]

StepInit ==
    /\ sm_class = "none"
    /\ sm_conjugate = FALSE
    /\ st_value = 0
    /\ st_last_value = 0
    /\ sm_current = 0
    /\ sm_current_like = 0
    /\ sm_accepted = 0
    /\ sm_rejected = 0
    /\ sm_steps = 0
    /\ sm_trace = NoStep

\* A step method of class c is built for a stochastic with initial value v.
NewStepMethod(c, v, conj) ==
    /\ sm_class = "none"
    /\ sm_class' = c
    /\ sm_conjugate' = conj
    /\ st_value' = v
    /\ st_last_value' = v
    /\ sm_accepted' = 0
    /\ sm_rejected' = 0
    /\ UNCHANGED <<sm_steps, sm_trace>>
    /\ UNCHANGED step_others

\* PyMC/proposition3.py SamplingMethod.__init__
SamplingMethod_init(v) ==
    /\ NewStepMethod("SamplingMethod", v, FALSE)
    /\ sm_current' = v
    /\ sm_current_like' = logp_fun(v)

\* pymc/gp/PyMC_objects.py GPMetropolis.__init__
GPMetropolis_init(v) ==
    /\ NewStepMethod("GPMetropolis", v, FALSE)
    /\ UNCHANGED <<sm_current, sm_current_like>>

\* PyMC/GibbsStepMethods.py Gibbs.__init__; the subclass sets conjugate
Gibbs_init(v, conj) ==
    /\ NewStepMethod("Gibbs", v, conj)
    /\ UNCHANGED <<sm_current, sm_current_like>>

\* PyMC2/sandbox/Normal.py MVNormalChildren.__init__
MVNormalChildren_init(v) ==
    /\ NewStepMethod("MVNormalChildren", v, FALSE)
    /\ UNCHANGED <<sm_current, sm_current_like>>

\* A step() call may be made: the step method exists, no earlier step()
\* ended in an exception (which ends the run), and the model's bound on
\* steps is not reached.
CanStep(c) ==
    /\ sm_class = c
    /\ sm_trace.outcome # "raised"
    /\ sm_steps < MaxSteps

\* PyMC/proposition3.py SamplingMethod._get_likelihood at value v.  When
\* the likelihood raises LikelihoodError the handler evaluates
\* "like -np.Inf" with `like` never assigned, which raises
\* UnboundLocalError instead of returning minus infinity.
get_likelihood(v) ==
    IF ZeroProbability(v)
    THEN [raised |-> TRUE, like |-> 0]
    ELSE [raised |-> FALSE, like |-> logp_fun(v)]

\* PyMC/proposition3.py SamplingMethod.test: alpha > 0 or
\* exp(alpha) >= rand(), with logu = log(rand()).
test(candidate_like, current_like, logu) ==
    LET alpha == candidate_like - current_like
    IN  alpha > 0 \/ alpha >= logu

\* PyMC/proposition3.py SamplingMethod.step: sample_candidate (which sets
\* the model's value through Merge.set_value), test, accept or reject.
SamplingMethod_step(delta, logu) ==
    LET candidate == sm_current + delta
        l == get_likelihood(candidate)
        accept == test(l.like, sm_current_like, logu)
    IN  /\ CanStep("SamplingMethod")
        /\ sm_steps' = sm_steps + 1
        /\ IF l.raised
           THEN /\ st_value' = candidate
                /\ sm_trace' = [outcome |-> "raised", before |-> st_value,
                                cand |-> candidate, zero |-> TRUE]
                /\ UNCHANGED <<sm_current, sm_current_like>>
           ELSE IF accept
           THEN /\ st_value' = candidate
                /\ sm_current' = candidate
                /\ sm_current_like' = l.like
                /\ sm_trace' = [outcome |-> "accepted", before |-> st_value,
                                cand |-> candidate, zero |-> FALSE]
           ELSE /\ st_value' = sm_current
                /\ sm_trace' = [outcome |-> "rejected", before |-> st_value,
                                cand |-> candidate, zero |-> FALSE]
                /\ UNCHANGED <<sm_current, sm_current_like>>
        /\ UNCHANGED <<sm_class, sm_conjugate, st_last_value, sm_accepted, sm_rejected>>
        /\ UNCHANGED step_others

\* pymc/gp/PyMC_objects.py GPMetropolis.step.  logp stands for
\* logp + loglike.  The first read of f.logp is outside the try block.
GPMetropolis_step(cand, logu) ==
    LET proposed == set_value(st_value, st_last_value, cand)
        reverted == revert(proposed.value, proposed.last_value)
        logp == logp_fun(st_value)
        logp_p == logp_fun(cand)
    IN  /\ CanStep("GPMetropolis")
        /\ sm_steps' = sm_steps + 1
        /\ IF ZeroProbability(st_value)
           THEN /\ sm_trace' = [outcome |-> "raised", before |-> st_value,
                                cand |-> st_value, zero |-> FALSE]
                /\ UNCHANGED <<st_value, st_last_value, sm_accepted, sm_rejected>>
           ELSE IF ZeroProbability(cand)
           THEN /\ st_value' = reverted.value
                /\ st_last_value' = reverted.last_value
                /\ sm_rejected' = sm_rejected + 1
                /\ sm_trace' = [outcome |-> "rejected", before |-> st_value,
                                cand |-> cand, zero |-> TRUE]
                /\ UNCHANGED sm_accepted
           ELSE IF logu > logp_p - logp
           THEN /\ st_value' = reverted.value
                /\ st_last_value' = reverted.last_value
                /\ sm_rejected' = sm_rejected + 1
                /\ sm_trace' = [outcome |-> "rejected", before |-> st_value,
                                cand |-> cand, zero |-> FALSE]
                /\ UNCHANGED sm_accepted
           ELSE /\ st_value' = proposed.value
                /\ st_last_value' = proposed.last_value
                /\ sm_accepted' = sm_accepted + 1
                /\ sm_trace' = [outcome |-> "accepted", before |-> st_value,
                                cand |-> cand, zero |-> FALSE]
                /\ UNCHANGED sm_rejected
        /\ UNCHANGED <<sm_class, sm_conjugate, sm_current, sm_current_like>>
        /\ UNCHANGED step_others

\* PyMC/GibbsStepMethods.py Gibbs.step.  After "except ZeroProbability:
\* self.reject()" control falls through to the test, which reads logp_p,
\* never assigned on that path: UnboundLocalError.  A conjugate step only
\* proposes (a draw from the conditional, inside the support).
Gibbs_step(cand, logu) ==
    LET proposed == set_value(st_value, st_last_value, cand)
        reverted == revert(proposed.value, proposed.last_value)
        logp == logp_fun(st_value)
        logp_p == logp_fun(cand)
    IN  /\ CanStep("Gibbs")
        /\ sm_conjugate => cand \in Support
        /\ sm_steps' = sm_steps + 1
        /\ IF sm_conjugate
           THEN /\ st_value' = proposed.value
                /\ st_last_value' = proposed.last_value
                /\ sm_trace' = [outcome |-> "accepted", before |-> st_value,
                                cand |-> cand, zero |-> FALSE]
           ELSE IF ZeroProbability(cand)
           THEN /\ st_value' = reverted.value
                /\ st_last_value' = reverted.last_value
                /\ sm_trace' = [outcome |-> "raised", before |-> st_value,
                                cand |-> cand, zero |-> TRUE]
           ELSE IF logu > logp_p - logp
           THEN /\ st_value' = reverted.value
                /\ st_last_value' = reverted.last_value
                /\ sm_trace' = [outcome |-> "rejected", before |-> st_value,
                                cand |-> cand, zero |-> FALSE]
           ELSE /\ st_value' = proposed.value
                /\ st_last_value' = proposed.last_value
                /\ sm_trace' = [outcome |-> "accepted", before |-> st_value,
                                cand |-> cand, zero |-> FALSE]
        /\ UNCHANGED <<sm_class, sm_conjugate, sm_current, sm_current_like,
                       sm_accepted, sm_rejected>>
        /\ UNCHANGED step_others

\* PyMC2/sandbox/Normal.py MVNormalChildren.step.  The rejecting branch of
\* the test increments _rejected before and after revert().
MVNormalChildren_step(cand, logu) ==
    LET proposed == set_value(st_value, st_last_value, cand)
        reverted == revert(proposed.value, proposed.last_value)
        logp == logp_fun(st_value)
        logp_p == logp_fun(cand)
    IN  /\ CanStep("MVNormalChildren")
        /\ sm_steps' = sm_steps + 1
        /\ IF ZeroProbability(cand)
           THEN /\ st_value' = reverted.value
                /\ st_last_value' = reverted.last_value
                /\ sm_rejected' = sm_rejected + 1
                /\ sm_trace' = [outcome |-> "rejected", before |-> st_value,
                                cand |-> cand, zero |-> TRUE]
                /\ UNCHANGED sm_accepted
           ELSE IF logu > logp_p - logp
           THEN /\ st_value' = reverted.value
                /\ st_last_value' = reverted.last_value
                /\ sm_rejected' = (sm_rejected + 1) + 1
                /\ sm_trace' = [outcome |-> "rejected", before |-> st_value,
                                cand |-> cand, zero |-> FALSE]
                /\ UNCHANGED sm_accepted
           ELSE /\ st_value' = proposed.value
                /\ st_last_value' = proposed.last_value
                /\ sm_accepted' = sm_accepted + 1
                /\ sm_trace' = [outcome |-> "accepted", before |-> st_value,
                                cand |-> cand, zero |-> FALSE]
                /\ UNCHANGED sm_rejected
        /\ UNCHANGED <<sm_class, sm_conjugate, sm_current, sm_current_like>>
        /\ UNCHANGED step_others

StepNext ==
    \/ \E v \in Support : SamplingMethod_init(v)
    \/ \E v \in Support : GPMetropolis_init(v)
    \/ \E v \in Support, conj \in BOOLEAN : Gibbs_init(v, conj)
    \/ \E v \in Support : MVNormalChildren_init(v)
    \/ \E delta \in Deltas, logu \in StepLogU : SamplingMethod_step(delta, logu)
    \/ \E cand \in Candidates, logu \in StepLogU : GPMetropolis_step(cand, logu)
    \/ \E cand \in Candidates, logu \in StepLogU : Gibbs_step(cand, logu)
    \/ \E cand \in Candidates, logu \in StepLogU : MVNormalChildren_step(cand, logu)

\* C3: after a step that ends in rejection the stochastic holds the value
\* it held before the step began; after a step that ends in acceptance it
\* holds the candidate value.
RejectRestoresAcceptKeeps ==
    /\ sm_trace.outcome = "rejected" => st_value = sm_trace.before
    /\ sm_trace.outcome = "accepted" => st_value = sm_trace.cand

\* C3 witness: a second proposal has been rejected after an accepted move,
\* so the value restored is not the initial one, and the candidate differed.
RejectedAfterMove ==
    /\ sm_class = "GPMetropolis"
    /\ sm_steps >= 2
    /\ sm_accepted >= 1
    /\ sm_trace.outcome = "rejected"
    /\ sm_trace.cand # sm_trace.before
    /\ st_value = sm_trace.before

\* C4: when the log-probability at the proposed value signals zero
\* probability, the step ends as a rejection with the prior value
\* restored, and no exception leaves step().
ZeroProbabilityIsRejection ==
    sm_trace.zero => (sm_trace.outcome = "rejected" /\ st_value = sm_trace.before)

\* The step methods that keep _accepted / _rejected counters in their step().
Counting == {"GPMetropolis", "MVNormalChildren"}

\* C8: every step() increments exactly one of the accepted / rejected
\* counters by one, so accepted + rejected equals the number of steps.
CountersSumToSteps ==
    sm_class \in Counting => sm_accepted + sm_rejected = sm_steps

-----------------------------------------------------------------------------
(* NUTS (pymc3/step_methods/nuts.py)                                       *)
(* Positions and momenta are not represented: a leapfrog step is its       *)
(* energy error dE, and each no-U-turn test                                *)
(* (span.dot(pn) >= 0) * (span.dot(pp) >= 0) is one of its two outcomes.   *)
(* The dual-averaging arithmetic on Hbar and step_size is modelled with    *)
(* the tuning of the step methods, further down.                           *)

MaxDoublings == 3        \* the model follows the while loop this far
MaxConfiguredDepth == 2  \* max_treedepth options tried: 1..MaxConfiguredDepth
MaxNutsSteps == 2        \* astep calls followed

Emax == 1000
EnergyErrors == {-1, 0, 3, Emax, Emax + 3}
NutsLogU == {-2, -1}

\* buildtree, j == 0: one leapfrog step with energy error dE.  high: the
\* energy error itself is Emax or more; turned: a no-U-turn product was 0.
Leaf(logu, dE) ==
    [n1 |-> IF logu + dE <= 0 THEN 1 ELSE 0,
     s1 |-> IF logu + dE < Emax THEN 1 ELSE 0,
     div |-> ~(logu + dE < Emax),
     high |-> dE >= Emax,
     turned |-> FALSE]

\* buildtree, j > 0: the second subtree is built only if the first has
\* s1 == 1; uturn is the outcome 0 or 1 of the no-U-turn product.
Merge_without_uturn(t, t2, uturn) ==
    [n1 |-> t.n1 + t2.n1, s1 |-> t2.s1, div |-> t2.div,
     high |-> t.high \/ t2.high, turned |-> t.turned \/ t2.turned \/ uturn = 0]

\* buildtree, j > 0, when the first subtree has s1 == 1:
\* "s1 = s11 * (span.dot(pn) >= 0) * (span.dot(pp) >= 0); n1 = n1 + n11".
Merge(t, t2, uturn) ==
    [n1 |-> t.n1 + t2.n1, s1 |-> t2.s1 * uturn, div |-> t2.div,
     high |-> t.high \/ t2.high, turned |-> t.turned \/ t2.turned \/ uturn = 0]

\* buildtree(H, q, p, u, v, j, ...): the set of results it can return.
RECURSIVE buildtree(_, _)
buildtree(logu, j) ==
    IF j = 0
    THEN {Leaf(logu, dE) : dE \in EnergyErrors}
    ELSE LET first == buildtree(logu, j - 1)
         IN  {t \in first : t.s1 # 1}
             \cup {Merge(t, t2, uturn) :
                     t \in {x \in first : x.s1 = 1}, t2 \in first, uturn \in {0, 1}}

\* bern(min(1, n1/n)): the outcomes a Bernoulli draw of that probability has.
bern(num, den) ==
    IF num <= 0 THEN {FALSE} ELSE IF num >= den THEN {TRUE} ELSE {FALSE, TRUE}

NoSubtree == [high |-> FALSE, turned |-> FALSE]

\* NUTS.astep ends with "return q", and BlockedStep.generates_stats is False
\* for it: a step hands on its point and no sampler statistic
\* (a statistic is a record [name, value]).
astep_stats == {}

NutsIdle ==
    /\ nuts_pc = "none"
    /\ nuts_max_treedepth = 0
    /\ nuts_logu = 0
    /\ nuts_j = 0
    /\ nuts_s = 1
    /\ nuts_n = 1
    /\ nuts_q = "q0"
    /\ nuts_div = FALSE
    /\ nuts_m = 1
    /\ nuts_sub = NoSubtree
    /\ nuts_stats = {}

\* NUTS.__init__: m = 1.  max_treedepth arrives in **kwargs, which __init__
\* hands to ArrayStepShared.__init__; no attribute of NUTS is set from it.
NUTS_init(depth) ==
    /\ nuts_pc = "none"
    /\ nuts_pc' = "idle"
    /\ nuts_max_treedepth' = depth
    /\ nuts_m' = 1
    /\ UNCHANGED <<nuts_logu, nuts_j, nuts_s, nuts_n, nuts_q, nuts_div, nuts_sub,
                   nuts_stats>>
    /\ UNCHANGED nuts_others

\* astep, up to the while loop: u = uniform(); n, s, j = 1, 1, 0.
astep_begin(logu) ==
    /\ nuts_pc = "idle"
    /\ nuts_m <= MaxNutsSteps
    /\ nuts_pc' = "loop"
    /\ nuts_logu' = logu
    /\ nuts_n' = 1
    /\ nuts_s' = 1
    /\ nuts_j' = 0
    /\ nuts_q' = "q0"
    /\ nuts_div' = FALSE
    /\ nuts_sub' = NoSubtree
    /\ UNCHANGED <<nuts_max_treedepth, nuts_m, nuts_stats>>
    /\ UNCHANGED nuts_others

\* One pass of "while s == 1": build a subtree of depth j in a random
\* direction, maybe move q, n += n1, s = s1 * no-U-turn product, j += 1.
\* The loop condition is s == 1 alone.
astep_double(t, uturn, move) ==
    /\ nuts_pc = "loop"
    /\ nuts_s = 1
    /\ nuts_j < MaxDoublings
    /\ t \in buildtree(nuts_logu, nuts_j)
    /\ move \in bern(t.n1, nuts_n)
    /\ nuts_q' = IF t.s1 = 1 /\ move THEN "q1" ELSE nuts_q
    /\ nuts_n' = nuts_n + t.n1
    /\ nuts_s' = t.s1 * uturn
    /\ nuts_div' = t.div
    /\ nuts_sub' = [high |-> t.high, turned |-> t.turned \/ uturn = 0]
    /\ nuts_j' = nuts_j + 1
    /\ UNCHANGED <<nuts_pc, nuts_max_treedepth, nuts_logu, nuts_m, nuts_stats>>
    /\ UNCHANGED nuts_others

\* astep, after the loop: step-size adaptation, m += 1, return q.
astep_end ==
    /\ nuts_pc = "loop"
    /\ nuts_s # 1
    /\ nuts_pc' = "idle"
    /\ nuts_m' = nuts_m + 1
    /\ nuts_stats' = astep_stats
    /\ UNCHANGED <<nuts_max_treedepth, nuts_logu, nuts_j, nuts_s, nuts_n,
                   nuts_q, nuts_div, nuts_sub>>
    /\ UNCHANGED nuts_others

TreeResults == UNION {buildtree(logu, j) : logu \in NutsLogU, j \in 0..(MaxDoublings - 1)}

NutsNext ==
    \/ \E depth \in 1..MaxConfiguredDepth : NUTS_init(depth)
    \/ \E logu \in NutsLogU : astep_begin(logu)
    \/ \E t \in TreeResults, uturn \in {0, 1}, move \in BOOLEAN :
          astep_double(t, uturn, move)
    \/ astep_end

\* C5: in every NUTS step the doubling loop ends after at most the
\* configured maximum tree depth doublings, whatever the directions drawn
\* and even if neither the no-U-turn nor the divergence criterion triggers.
DoublingsWithinMaxTreeDepth ==
    nuts_pc = "loop" => nuts_j <= nuts_max_treedepth

\* The step completed last ended on a leapfrog state with
\* log(u) + dE >= Emax, the energy error itself being Emax or more.
DivergentStepDone ==
    nuts_pc = "idle" /\ nuts_m > 1 /\ nuts_div /\ nuts_sub.high

\* C21: a NUTS step whose energy error exceeds Emax is counted as divergent
\* in the statistics the step reports for that iteration (and the run goes
\* on with the next step).
DivergenceReported ==
    DivergentStepDone => [name |-> "diverging", value |-> TRUE] \in nuts_stats

\* A doubling has been made in the step under way.
Doubled == nuts_pc = "loop" /\ nuts_j >= 1

-----------------------------------------------------------------------------
(* The sampling loop (pymc/MCMC.py; pymc3/sampling.py _iter_sample)        *)
(* A step method is followed only as far as "inside step()" and "step()    *)
(* has returned".  Sampler.sample, Sampler.tally and Sampler.halt are not  *)
(* in the sources: sample is taken to start a run at _current_iter = 0 and *)
(* to call _loop, tally to store at the next free index of the trace.      *)

MaxIter == 6
MaxBurn == 5
MaxThin == 2
MaxTuneInterval == 2
MaxDraws == 3
MaxClean == 6

Methods == {"sm1", "sm2"}
InsideTry == {"check", "tune", "step", "incr"}

\* MCMC._loop: "if i and not (i % self._tune_interval) and self._tuning".
tune_due(i, tune_interval, tuning) ==
    i # 0 /\ i % tune_interval = 0 /\ tuning

\* The tally condition without the burn-in test.
tally_due_no_burn(i, thin, burn) ==
    i % thin = 0

\* MCMC._loop: "if not i % self._thin and i >= self._burn".
tally_due(i, thin, burn) ==
    i % thin = 0 /\ i >= burn

\* MCMC.tune whose count of clean intervals is never re-initialised.
MCMC_tune_without_reset(cur, burn, tuning, tuned_count, tuning_count) ==
    IF cur > burn
    THEN [tuning |-> FALSE, tuned_count |-> tuned_count, told |-> FALSE]
    ELSE LET c == IF tuning_count = 0 THEN tuned_count + 1 ELSE tuned_count
         IN  [tuning |-> IF c = 5 THEN FALSE ELSE tuning, tuned_count |-> c,
              told |-> TRUE]

\* MCMC.tune, with tuning_count the sum of the step methods' tune() results;
\* told: the step methods were told to tune ("Only tune during burn-in").
MCMC_tune(cur, burn, tuning, tuned_count, tuning_count) ==
    IF cur > burn
    THEN [tuning |-> FALSE, tuned_count |-> tuned_count, told |-> FALSE]
    ELSE LET c == IF tuning_count = 0 THEN tuned_count + 1 ELSE 0
         IN  [tuning |-> IF c = 5 THEN FALSE ELSE tuning, tuned_count |-> c,
              told |-> TRUE]

\* PyMC2/database/ram.py Trace.tally on a trace allocated by
\* _initialize(length): self._trace[chain][index] = value.
Trace_tally(index, length) ==
    IF index < length THEN "stored" ELSE "IndexError"

NoCalls == [events |-> <<>>, tuning |-> FALSE]
NoTuneCall == [at |-> -1, tuning |-> FALSE, told |-> FALSE, adjusted |-> 0,
               direct |-> FALSE, clean |-> 0]

\* The record of one call of MCMC.tune(): the iteration it is made at, the
\* _tuning flag it finds, whether it reaches the step methods, the sum of
\* their reports, and how many such calls in a row have reported nothing.
TuneCall(r, tuning_count, direct) ==
    [at |-> _current_iter, tuning |-> _tuning, told |-> r.told,
     adjusted |-> tuning_count, direct |-> direct,
     clean |-> IF ~r.told THEN last_tune.clean
               ELSE IF tuning_count = 0 THEN last_tune.clean + 1 ELSE 0]
NoIteration == [i |-> -1, events |-> <<>>, tuning |-> FALSE]

LoopIdle ==
    /\ loop_driver = "none"
    /\ status = "ready"
    /\ _current_iter = 0
    /\ _iter = 0
    /\ _burn = 0
    /\ _thin = 1
    /\ _tune_interval = 1
    /\ _tuning = FALSE
    /\ _tuned_count = 0
    /\ max_trace_length = 0
    /\ draws = 0
    /\ tune = 0
    /\ step_tune = TRUE
    /\ sample_i = 0
    /\ loop_pc = "idle"
    /\ loop_stepped = {}
    /\ loop_in_step = "none"
    /\ loop_cur = NoCalls
    /\ loop_done = NoIteration
    /\ loop_tallies = 0
    /\ loop_exit = "none"
    /\ last_tune = NoTuneCall

\* MCMC.sample(iter, burn, thin, tune_interval) up to the first test of
\* _loop's while condition.
MCMC_sample(iter, burn, thin, tune_interval) ==
    /\ loop_pc = "idle"
    /\ loop_driver' = "MCMC"
    /\ _iter' = iter
    /\ _burn' = burn
    /\ _thin' = thin
    /\ _tune_interval' = tune_interval
    /\ max_trace_length' = (iter - burn) \div thin
    /\ _tuning' = TRUE
    /\ _tuned_count' = 0
    /\ _current_iter' = 0
    /\ status' = "running"
    /\ loop_pc' = "check"
    /\ UNCHANGED <<draws, tune, step_tune, sample_i, loop_stepped, loop_in_step,
                   loop_cur, loop_done, loop_tallies, loop_exit, last_tune>>
    /\ UNCHANGED loop_others

\* MCMC._loop: the while condition and the test for 'paused'; when the
\* loop is left, "if self.status == 'halt': self.halt()".
MCMC_loop_test ==
    /\ loop_driver = "MCMC"
    /\ loop_pc = "check"
    /\ IF _current_iter < _iter /\ status # "halt"
       THEN IF status = "paused"
            THEN loop_pc' = "returned" /\ loop_exit' = "paused"
            ELSE loop_pc' = "tune" /\ UNCHANGED loop_exit
       ELSE /\ loop_pc' = "returned"
            /\ loop_exit' = IF status = "halt" THEN "halt" ELSE "finished"
    /\ UNCHANGED <<loop_driver, status, _current_iter, _iter, _burn, _thin,
                   _tune_interval, _tuning, _tuned_count, max_trace_length,
                   draws, tune, step_tune, sample_i, loop_stepped,
                   loop_in_step, loop_cur, loop_done, loop_tallies,
                   last_tune>>
    /\ UNCHANGED loop_others

\* MCMC._loop: "Tune at interval".
MCMC_loop_tune(tuning_count) ==
    LET i == _current_iter
        due == tune_due(i, _tune_interval, _tuning)
        r == MCMC_tune(_current_iter, _burn, _tuning, _tuned_count, tuning_count)
    IN  /\ loop_driver = "MCMC"
        /\ loop_pc = "tune"
        /\ ~(due /\ r.told) => tuning_count = 0
        /\ IF due
           THEN /\ _tuning' = r.tuning
                /\ _tuned_count' = r.tuned_count
                /\ last_tune' = TuneCall(r, tuning_count, FALSE)
                /\ loop_cur' = [events |-> Append(loop_cur.events, "tune"),
                                tuning |-> _tuning]
           ELSE /\ UNCHANGED <<_tuning, _tuned_count, last_tune>>
                /\ loop_cur' = [loop_cur EXCEPT !.tuning = _tuning]
        /\ loop_pc' = "step"
        /\ UNCHANGED <<loop_driver, status, _current_iter, _iter, _burn, _thin,
                       _tune_interval, max_trace_length, draws, tune, step_tune,
                       sample_i, loop_stepped, loop_in_step, loop_done,
                       loop_tallies, loop_exit>>
        /\ UNCHANGED loop_others

\* MCMC.tune() called on a sampler whose loop has returned (paused, halted
\* or finished): tune is a public method and does not test _tuning itself.
MCMC_tune_call(tuning_count) ==
    LET r == MCMC_tune(_current_iter, _burn, _tuning, _tuned_count, tuning_count)
    IN  /\ loop_driver = "MCMC"
        /\ loop_pc = "returned"
        /\ last_tune.clean < MaxClean
        /\ ~r.told => tuning_count = 0
        /\ _tuning' = r.tuning
        /\ _tuned_count' = r.tuned_count
        /\ last_tune' = TuneCall(r, tuning_count, TRUE)
        /\ UNCHANGED <<loop_driver, status, _current_iter, _iter, _burn, _thin,
                       _tune_interval, max_trace_length, draws, tune, step_tune,
                       sample_i, loop_pc, loop_stepped, loop_in_step, loop_cur,
                       loop_done, loop_tallies, loop_exit>>
        /\ UNCHANGED loop_others

\* "for step_method in self.step_methods: step_method.step()" (MCMC._loop)
\* and "step.step(point)" (_iter_sample): control enters step() of a step
\* method that has not stepped in this iteration.
step_begin(m) ==
    /\ loop_pc = "step"
    /\ loop_in_step = "none"
    /\ m \notin loop_stepped
    /\ loop_in_step' = m
    /\ UNCHANGED <<loop_driver, status, _current_iter, _iter, _burn, _thin,
                   _tune_interval, _tuning, _tuned_count, max_trace_length,
                   draws, tune, step_tune, sample_i, loop_pc, loop_stepped,
                   loop_cur, loop_done, loop_tallies, loop_exit, last_tune>>
    /\ UNCHANGED loop_others

\* step() returns: the step method has made its accept / reject transition.
step_end(m) ==
    /\ loop_pc = "step"
    /\ loop_in_step = m
    /\ loop_in_step' = "none"
    /\ loop_stepped' = loop_stepped \cup {m}
    /\ loop_cur' = [loop_cur EXCEPT !.events = Append(@, m)]
    /\ UNCHANGED <<loop_driver, status, _current_iter, _iter, _burn, _thin,
                   _tune_interval, _tuning, _tuned_count, max_trace_length,
                   draws, tune, step_tune, sample_i, loop_pc, loop_done,
                   loop_tallies, loop_exit, last_tune>>
    /\ UNCHANGED loop_others

\* MCMC._loop: "if not i % self._thin and i >= self._burn: self.tally()".
\* An IndexError of the trace is not a KeyboardInterrupt: it leaves _loop.
MCMC_loop_tally ==
    LET i == _current_iter
        due == tally_due(i, _thin, _burn)
        stored == Trace_tally(loop_tallies, max_trace_length) = "stored"
    IN  /\ loop_driver = "MCMC"
        /\ loop_pc = "step"
        /\ loop_in_step = "none"
        /\ loop_stepped = Methods
        /\ IF due
           THEN /\ loop_tallies' = loop_tallies + 1
                /\ loop_cur' = [loop_cur EXCEPT !.events = Append(@, "tally")]
                /\ loop_pc' = IF stored THEN "incr" ELSE "raised"
                /\ loop_exit' = IF stored THEN loop_exit ELSE "IndexError"
           ELSE /\ loop_pc' = "incr"
                /\ UNCHANGED <<loop_tallies, loop_cur, loop_exit>>
        /\ UNCHANGED <<loop_driver, status, _current_iter, _iter, _burn, _thin,
                       _tune_interval, _tuning, _tuned_count, max_trace_length,
                       draws, tune, step_tune, sample_i, loop_stepped,
                       loop_in_step, loop_done, last_tune>>
        /\ UNCHANGED loop_others

\* MCMC._loop: "self._current_iter += 1"; the iteration is complete.
MCMC_loop_incr ==
    /\ loop_driver = "MCMC"
    /\ loop_pc = "incr"
    /\ _current_iter' = _current_iter + 1
    /\ loop_done' = [i |-> _current_iter, events |-> loop_cur.events,
                     tuning |-> loop_cur.tuning]
    /\ loop_cur' = NoCalls
    /\ loop_stepped' = {}
    /\ loop_pc' = "check"
    /\ UNCHANGED <<loop_driver, status, _iter, _burn, _thin, _tune_interval,
                   _tuning, _tuned_count, max_trace_length, draws, tune,
                   step_tune, sample_i, loop_in_step, loop_tallies, loop_exit,
                   last_tune>>
    /\ UNCHANGED loop_others

\* MCMC._loop: "except KeyboardInterrupt: self.status='halt'", then
\* halt().  The interrupt is raised wherever control is inside the try
\* block, inside a step method's step() included.
MCMC_KeyboardInterrupt ==
    /\ loop_driver = "MCMC"
    /\ loop_pc \in InsideTry
    /\ status' = "halt"
    /\ loop_pc' = "returned"
    /\ loop_exit' = "interrupt"
    /\ UNCHANGED <<loop_driver, _current_iter, _iter, _burn, _thin,
                   _tune_interval, _tuning, _tuned_count, max_trace_length,
                   draws, tune, step_tune, sample_i, loop_stepped,
                   loop_in_step, loop_cur, loop_done, loop_tallies,
                   last_tune>>
    /\ UNCHANGED loop_others

\* MCMC class docstring: a pause or a halt is requested by setting status
\* while the loop runs.
request(s) ==
    /\ loop_driver = "MCMC"
    /\ loop_pc \in InsideTry
    /\ status = "running"
    /\ status' = s
    /\ UNCHANGED <<loop_driver, _current_iter, _iter, _burn, _thin,
                   _tune_interval, _tuning, _tuned_count, max_trace_length,
                   draws, tune, step_tune, sample_i, loop_pc, loop_stepped,
                   loop_in_step, loop_cur, loop_done, loop_tallies, loop_exit,
                   last_tune>>
    /\ UNCHANGED loop_others

\* MCMC._loop called again on a sampler whose loop returned on a pause, a
\* halt or a KeyboardInterrupt (class docstring): "self.status='running'"
\* and the while loop from its top, with _current_iter as it was left.
MCMC_loop_reenter ==
    /\ loop_driver = "MCMC"
    /\ loop_pc = "returned"
    /\ loop_exit \in {"paused", "halt", "interrupt"}
    /\ status' = "running"
    /\ loop_pc' = "check"
    /\ loop_stepped' = {}
    /\ loop_in_step' = "none"
    /\ loop_cur' = NoCalls
    /\ UNCHANGED <<loop_driver, _current_iter, _iter, _burn, _thin,
                   _tune_interval, _tuning, _tuned_count, max_trace_length,
                   draws, tune, step_tune, sample_i, loop_done, loop_tallies,
                   loop_exit, last_tune>>
    /\ UNCHANGED loop_others

\* pymc3/sampling.py _iter_sample up to the for loop: strace.setup(draws, chain).
iter_sample(n, t) ==
    /\ loop_pc = "idle"
    /\ loop_driver' = "iter_sample"
    /\ draws' = n
    /\ tune' = t
    /\ max_trace_length' = n
    /\ sample_i' = 0
    /\ step_tune' = TRUE
    /\ loop_pc' = "check"
    /\ UNCHANGED <<status, _current_iter, _iter, _burn, _thin, _tune_interval,
                   _tuning, _tuned_count, loop_stepped, loop_in_step, loop_cur,
                   loop_done, loop_tallies, loop_exit, last_tune>>
    /\ UNCHANGED loop_others

\* pymc3/sampling.py stop_tuning: step.tune = False.
stop_tuning(step_tune_flag) == FALSE

\* _iter_sample: "for i in range(draws): if i == tune: step = stop_tuning(step)";
\* after the last draw the else branch closes the trace.
iter_sample_next ==
    /\ loop_driver = "iter_sample"
    /\ loop_pc = "check"
    /\ IF sample_i < draws
       THEN /\ step_tune' = IF sample_i = tune THEN stop_tuning(step_tune) ELSE step_tune
            /\ loop_pc' = "step"
            /\ UNCHANGED loop_exit
       ELSE /\ loop_pc' = "returned"
            /\ loop_exit' = "finished"
            /\ UNCHANGED step_tune
    /\ UNCHANGED <<loop_driver, status, _current_iter, _iter, _burn, _thin,
                   _tune_interval, _tuning, _tuned_count, max_trace_length,
                   draws, tune, sample_i, loop_stepped, loop_in_step, loop_cur,
                   loop_done, loop_tallies, last_tune>>
    /\ UNCHANGED loop_others

\* _iter_sample: strace.record(point); yield strace; next i.
iter_sample_record ==
    /\ loop_driver = "iter_sample"
    /\ loop_pc = "step"
    /\ loop_in_step = "none"
    /\ loop_stepped = Methods
    /\ loop_tallies' = loop_tallies + 1
    /\ loop_done' = [i |-> sample_i, events |-> Append(loop_cur.events, "record"),
                     tuning |-> step_tune]
    /\ loop_cur' = NoCalls
    /\ loop_stepped' = {}
    /\ sample_i' = sample_i + 1
    /\ loop_pc' = "check"
    /\ UNCHANGED <<loop_driver, status, _current_iter, _iter, _burn, _thin,
                   _tune_interval, _tuning, _tuned_count, max_trace_length,
                   draws, tune, step_tune, loop_in_step, loop_exit,
                   last_tune>>
    /\ UNCHANGED loop_others

\* _iter_sample: "except KeyboardInterrupt: strace.close(); ...; raise".
iter_sample_KeyboardInterrupt ==
    /\ loop_driver = "iter_sample"
    /\ loop_pc \in InsideTry
    /\ loop_pc' = "raised"
    /\ loop_exit' = "interrupt"
    /\ UNCHANGED <<loop_driver, status, _current_iter, _iter, _burn, _thin,
                   _tune_interval, _tuning, _tuned_count, max_trace_length,
                   draws, tune, step_tune, sample_i, loop_stepped,
                   loop_in_step, loop_cur, loop_done, loop_tallies,
                   last_tune>>
    /\ UNCHANGED loop_others

Min(a, b) == IF a < b THEN a ELSE b

LoopNext ==
    \/ \E iter \in 1..MaxIter :
         \E burn \in 0..Min(iter, MaxBurn), thin \in 1..MaxThin,
            tune_interval \in 1..MaxTuneInterval :
              MCMC_sample(iter, burn, thin, tune_interval)
    \/ MCMC_loop_test
    \/ \E tuning_count \in 0..1 : MCMC_loop_tune(tuning_count)
    \/ \E tuning_count \in 0..1 : MCMC_tune_call(tuning_count)
    \/ \E m \in Methods : step_begin(m)
    \/ \E m \in Methods : step_end(m)
    \/ MCMC_loop_tally
    \/ MCMC_loop_incr
    \/ MCMC_KeyboardInterrupt
    \/ \E s \in {"paused", "halt"} : request(s)
    \/ \E n \in 1..MaxDraws : \E t \in 0..n : iter_sample(n, t)
    \/ iter_sample_next
    \/ iter_sample_record
    \/ iter_sample_KeyboardInterrupt

\* The calls of the last completed iteration of MCMC._loop.
DoneEvents == loop_done.events
TuneCalled == Len(DoneEvents) > 0 /\ DoneEvents[1] = "tune"
TallyCalled == Len(DoneEvents) > 0 /\ DoneEvents[Len(DoneEvents)] = "tally"
StepsFrom == IF TuneCalled THEN 2 ELSE 1
StepsTo == IF TallyCalled THEN Len(DoneEvents) - 1 ELSE Len(DoneEvents)

\* C6: each completed iteration i of the sampling loop performs, in this
\* order, tuning (only if due), exactly one step() of every step method,
\* and then a tally if and only if i % thin == 0 and i >= burn.
IterationOrder ==
    (loop_driver = "MCMC" /\ loop_done.i >= 0) =>
        /\ TuneCalled <=> (/\ loop_done.i # 0
                           /\ loop_done.i % _tune_interval = 0
                           /\ loop_done.tuning)
        /\ TallyCalled <=> (loop_done.i % _thin = 0 /\ loop_done.i >= _burn)
        /\ StepsTo - StepsFrom + 1 = Cardinality(Methods)
        /\ \A m \in Methods :
             Cardinality({k \in StepsFrom..StepsTo : DoneEvents[k] = m}) = 1

\* C6 witness: a completed iteration past the first that tuned, stepped
\* and tallied, and an earlier part of the run that was burn-in.
TunedSteppedTallied ==
    /\ loop_driver = "MCMC"
    /\ loop_done.i >= 1
    /\ _burn >= 1
    /\ TuneCalled
    /\ TallyCalled
    /\ Len(DoneEvents) = Cardinality(Methods) + 2

\* C7: a cancellation or interrupt takes effect only at an iteration
\* boundary: when control has left the sampling loop on a pause, a halt or
\* an interrupt, no step method is inside step() and no iteration is left
\* with some step methods stepped and others not.
CancelOnlyAtBoundary ==
    loop_exit \in {"paused", "halt", "interrupt"} =>
        /\ loop_in_step = "none"
        /\ loop_stepped = {}
        /\ loop_cur.events = <<>>

\* C9: for every completed run sample(iter, burn, thin) the number of
\* tallies equals the allocated trace length (iter - burn) / thin, and no
\* tally writes past the end of the allocated trace.
TalliesEqualTraceLength ==
    loop_driver = "MCMC" =>
        /\ loop_tallies <= max_trace_length
        /\ loop_exit = "finished" => loop_tallies = max_trace_length

\* C16: the driver's tuning is switched off exactly when five tune() calls in
\* a row have found no step method reporting an adjustment, and a call in
\* which a step method reports one sets the count of clean intervals to zero.
TuningOffAfterFiveCleanIntervals ==
    (loop_driver = "MCMC" /\ last_tune.at >= 0 /\ last_tune.told) =>
        /\ _tuned_count = last_tune.clean
        /\ last_tune.adjusted > 0 => _tuned_count = 0
        /\ last_tune.tuning => (_tuning <=> last_tune.clean # 5)

\* Witness for C16: the loop's fifth clean tune() in a row, made inside
\* burn-in, has switched tuning off.
FiveCleanIntervals ==
    /\ loop_driver = "MCMC"
    /\ ~last_tune.direct
    /\ last_tune.told
    /\ last_tune.tuning
    /\ last_tune.clean = 5
    /\ _current_iter <= _burn
    /\ ~_tuning

\* C17: a tune() call made while tuning is disabled changes no step method:
\* no step method reports an adjustment of its scaling or step size.
DisabledTuneAdjustsNothing ==
    (loop_driver = "MCMC" /\ last_tune.at >= 0 /\ ~last_tune.tuning) =>
        last_tune.adjusted = 0

-----------------------------------------------------------------------------
(* The cache sequence (PyMC2/utils.py _push)                               *)

MaxDepth == 3      \* cache depths 1..MaxDepth
MaxEntry == 3      \* entries pushed are 1..MaxEntry; 0 is the initial filler
MaxPushes == 3

\* "for i in range(length-1): seq[i+1] = seq[i]", run from position i on:
\* each assignment reads the element the previous assignment wrote.
RECURSIVE shift(_, _)
shift(seq, i) ==
    IF i > Len(seq) - 1
    THEN seq
    ELSE shift([seq EXCEPT ![i + 1] = seq[i]], i + 1)

\* The loop of _push without the final store at position 0.
_push_without_store(seq, new_value) == shift(seq, 1)

\* _push(seq, new_value): the loop, then seq[0] = copy(new_value).
_push(seq, new_value) ==
    [shift(seq, 1) EXCEPT ![1] = new_value]

PushIdle ==
    /\ push_seq = <<>>
    /\ push_prev = <<>>
    /\ push_new = 0
    /\ push_hist = <<>>

\* A cache of depth d is created, filled with d initial entries.
Cache_init(d) ==
    /\ push_seq = <<>>
    /\ push_seq' = [k \in 1..d |-> 0]
    /\ push_hist' = [k \in 1..d |-> 0]
    /\ UNCHANGED <<push_prev, push_new>>
    /\ UNCHANGED push_others

\* One call _push(seq, new_value).
push(new_value) ==
    /\ Len(push_seq) >= 1
    /\ Len(push_hist) < Len(push_seq) + MaxPushes
    /\ push_seq' = _push(push_seq, new_value)
    /\ push_prev' = push_seq
    /\ push_new' = new_value
    /\ push_hist' = <<new_value>> \o push_hist
    /\ UNCHANGED push_others

PushNext ==
    \/ \E d \in 1..MaxDepth : Cache_init(d)
    \/ \E new_value \in 1..MaxEntry : push(new_value)

\* C10: pushing onto a sequence of length d >= 1 puts the new entry at
\* position 0, moves the entry at position i to i+1 for every i < d-1 and
\* discards only the last entry, so the sequence always holds the d most
\* recently pushed entries, newest first.
PushShiftsByOne ==
    /\ push_new # 0 =>
         /\ push_seq[1] = push_new
         /\ \A k \in 1..(Len(push_seq) - 1) : push_seq[k + 1] = push_prev[k]
    /\ push_seq = SubSeq(push_hist, 1, Len(push_seq))

-----------------------------------------------------------------------------
(* The lazy function of one node (PyMC2/PyMCObjects.py Node.get_value,     *)
(* Parameter.get_logp; the cache is shifted by PyMC2/utils.py _push).      *)
(* LazyFunction is a compiled extension; its get() is modelled as: search  *)
(* the cached parent values newest first, return the cached result on a    *)
(* match, otherwise call the user function and push arguments and result.  *)

MaxParentValue == 2   \* parent values 1..MaxParentValue; 0 fills a new cache
MaxGets == 3

\* The node's user function (_eval_fun / _logp_fun) of the parent value.
eval_fun(pv) == 2 * pv + 1

\* Positions of the cache whose stored parent value equals pv.
Matches(args, pv) == {k \in 1..Len(args) : args[k] = pv}

\* The smallest member of a non-empty set of positions: the newest match.
Newest(S) == CHOOSE k \in S : \A j \in S : k <= j

\* LazyFunction.get(): [value, called, args, vals] for a cache (args, vals)
\* and the parent's current value pv.
LazyFunction_get(args, vals, pv) ==
    IF Matches(args, pv) # {}
    THEN [value |-> vals[Newest(Matches(args, pv))], called |-> FALSE,
          args |-> args, vals |-> vals]
    ELSE [value |-> eval_fun(pv), called |-> TRUE,
          args |-> _push(args, pv), vals |-> _push(vals, eval_fun(pv))]

NoGet == [value |-> 0, called |-> FALSE, consecutive |-> FALSE, previous |-> 0]

LazyIdle ==
    /\ lz_parent = 1
    /\ lz_args = <<>>
    /\ lz_vals = <<>>
    /\ lz_calls = 0
    /\ lz_gets = 0
    /\ lz_prev = "none"
    /\ lz_last = NoGet

\* gen_lazy_function: LazyFunction(fun, arguments, cache_depth) with an
\* empty cache of cache_depth entries.
LazyFunction_init(cache_depth) ==
    /\ lz_args = <<>>
    /\ lz_args' = [k \in 1..cache_depth |-> 0]
    /\ lz_vals' = [k \in 1..cache_depth |-> 0]
    /\ UNCHANGED <<lz_parent, lz_calls, lz_gets, lz_prev, lz_last>>
    /\ UNCHANGED lazy_others

\* The parent's value is set (Parameter.set_value on the parent).
set_parent_value(v) ==
    /\ Len(lz_args) >= 1
    /\ lz_gets < MaxGets
    /\ v # lz_parent
    /\ lz_parent' = v
    /\ lz_prev' = "set"
    /\ UNCHANGED <<lz_args, lz_vals, lz_calls, lz_gets, lz_last>>
    /\ UNCHANGED lazy_others

\* Node.get_value: self._value.get().
get_value ==
    LET r == LazyFunction_get(lz_args, lz_vals, lz_parent)
    IN  /\ Len(lz_args) >= 1
        /\ lz_gets < MaxGets
        /\ lz_gets' = lz_gets + 1
        /\ lz_args' = r.args
        /\ lz_vals' = r.vals
        /\ lz_calls' = IF r.called THEN lz_calls + 1 ELSE lz_calls
        /\ lz_last' = [value |-> r.value, called |-> r.called,
                       consecutive |-> lz_prev = "get",
                       previous |-> lz_last.value]
        /\ lz_prev' = "get"
        /\ UNCHANGED lz_parent
        /\ UNCHANGED lazy_others

LazyNext ==
    \/ \E cache_depth \in 1..MaxDepth : LazyFunction_init(cache_depth)
    \/ \E v \in 1..MaxParentValue : set_parent_value(v)
    \/ get_value

\* C13: two consecutive get(N) calls with no change to any parent value
\* between them invoke N's user function at most once: the second call is
\* a cache hit returning the same result without recomputation.
SecondGetIsCacheHit ==
    (lz_prev = "get" /\ lz_last.consecutive) =>
        /\ ~lz_last.called
        /\ lz_last.value = lz_last.previous
        /\ lz_last.value = eval_fun(lz_parent)

\* C13 witness: after the parent's value changed and came back, a get()
\* directly following another get() was served from a cache of depth 3.
ConsecutiveGetServed ==
    /\ Len(lz_args) = 3
    /\ lz_calls >= 2
    /\ lz_gets >= 3
    /\ lz_prev = "get"
    /\ lz_last.consecutive
    /\ ~lz_last.called

-----------------------------------------------------------------------------
(* The children whose log-densities a step method adds to the variable's   *)
(* own (PyMC/proposition3.py Merge.__find_children, __find_ext_children,   *)
(* SamplingMethod.__find_probabilistic_children; PyMC2/utils.py            *)
(* extend_children).  Objects are numbered in topological order; object 1  *)
(* is the variable the step method handles.  In proposition3.py a          *)
(* Parameter or a Node carries a likelihood ("stochastic"), a Data is      *)
(* "data" and a plain function (a logical) is "deterministic"; in PyMC2 a  *)
(* Parameter is stochastic (data included) and a Node is deterministic.    *)

MaxObjects == 4
Objects == 1..MaxObjects
Kinds == {"stochastic", "data", "deterministic"}

\* The directed acyclic graphs on Objects: edges go from lower to higher.
ChildMaps == {c \in [Objects -> SUBSET Objects] : \A o \in Objects : \A x \in c[o] : x > o}
KindMaps == {k \in [Objects -> Kinds] : k[1] = "stochastic"}

\* Merge.__find_ext_children(name), started from ext_children[name] = S:
\* as long as some member's children are not all in the set, add them.
RECURSIVE find_ext_children(_, _)
find_ext_children(ch, S) ==
    LET grown == S \cup UNION {ch[c] : c \in S}
    IN  IF grown = S THEN S ELSE find_ext_children(ch, grown)

\* SamplingMethod.__find_probabilistic_children: the extended children
\* minus the model's logicals and minus its data.
find_probabilistic_children(ch, kind, name) ==
    {c \in find_ext_children(ch, ch[name]) : kind[c] \notin {"deterministic", "data"}}

\* PyMC2/utils.py extend_children on an object whose children set is S:
\* add the children of the Node children, drop the Node children, repeat
\* while there was a Node child.
RECURSIVE extend_children(_, _, _)
extend_children(ch, kind, S) ==
    LET node_children == {c \in S : kind[c] = "deterministic"}
        new_children == (S \cup UNION {ch[c] : c \in node_children}) \ node_children
    IN  IF node_children = {} THEN S ELSE extend_children(ch, kind, new_children)

BlanketIdle ==
    /\ mb_children = [o \in Objects |-> {}]
    /\ mb_kind = [o \in Objects |-> "stochastic"]
    /\ mb_via = "none"
    /\ mb_out = {}

BlanketInit ==
    /\ mb_children \in ChildMaps
    /\ mb_kind \in KindMaps
    /\ mb_via = "none"
    /\ mb_out = {}

\* SamplingMethod.__init__ on object 1 of a Merge model.
SamplingMethod_find_children ==
    /\ mb_via = "none"
    /\ mb_via' = "proposition3"
    /\ mb_out' = find_probabilistic_children(mb_children, mb_kind, 1)
    /\ UNCHANGED <<mb_children, mb_kind>>
    /\ UNCHANGED blanket_others

\* extend_children(object 1).
utils_extend_children ==
    /\ mb_via = "none"
    /\ mb_via' = "extend_children"
    /\ mb_out' = extend_children(mb_children, mb_kind, mb_children[1])
    /\ UNCHANGED <<mb_children, mb_kind>>
    /\ UNCHANGED blanket_others

BlanketNext ==
    \/ SamplingMethod_find_children
    \/ utils_extend_children

\* Objects reachable from object 1 along edges whose intermediate objects
\* are all deterministic.
RECURSIVE ThroughDeterministic(_)
ThroughDeterministic(S) ==
    LET grown == S \cup UNION {mb_children[c] : c \in {x \in S : mb_kind[x] = "deterministic"}}
    IN  IF grown = S THEN S ELSE ThroughDeterministic(grown)

\* C14: the joint log-probability a step method compares is the variable's
\* own log-density plus the log-densities of exactly those stochastic
\* descendants reachable from it through deterministic nodes only (never
\* through another stochastic), each counted once.
\* Observed data are left out of the comparison: proposition3.py removes
\* them from the sum, PyMC2 keeps them as Parameters.
SumsNearestStochasticDescendants ==
    mb_via # "none" =>
        {c \in mb_out : mb_kind[c] # "data"}
            = {c \in ThroughDeterministic(mb_children[1]) : mb_kind[c] = "stochastic"}

-----------------------------------------------------------------------------
(* Specifications                                                          *)
-----------------------------------------------------------------------------
(* Tuning of the pymc3 step methods under pymc3/sampling.py _iter_sample:  *)
(* Metropolis (pymc3/step_methods/metropolis.py), which rescales its       *)
(* proposal, and NUTS (pymc3/step_methods/nuts.py), which adapts its step  *)
(* size.  One action is one pass of the for loop with one step method.     *)
(* scaling is the exact rational num / 10^pow.  With S = (m - 1 + t0)*Hbar *)
(* the update of Hbar reads S' = S + (target_accept - a/na), and step_size *)
(* = exp(u - sqrt(m)/gamma * S'/(m + t0)) is kept as the pair (m, S') it   *)
(* is computed from; the acceptance gap target_accept - a/na is an input,  *)
(* in units of one.                                                        *)

MaxTuneDraws == 5    \* draws is 1..MaxTuneDraws
MaxInterval == 2     \* tune_interval is 1..MaxInterval
NoTune == -1         \* tune=None, the default of _iter_sample: no index equals it
AcceptGaps == {-1, 0, 1}
DeltaLogp == {Fin(0), Fin(-MaxMag)}

\* hasattr(step, 'tune'): Metropolis sets self.tune, NUTS has no such attribute.
hasattr_tune(step) == step = "Metropolis"

\* metropolis.py tune(scale, acc_rate) with acc_rate = accepted / float(tune_interval).
metropolis_tune(scale, acc, interval) ==
    LET tenfold ==
          IF 1000 * acc < interval THEN 1
          ELSE IF 100 * acc < 5 * interval THEN 5
          ELSE IF 10 * acc < 2 * interval THEN 9
          ELSE IF 100 * acc > 95 * interval THEN 100
          ELSE IF 100 * acc > 75 * interval THEN 20
          ELSE IF 10 * acc > 5 * interval THEN 11
          ELSE 10
    IN  [num |-> scale.num * tenfold, pow |-> scale.pow + 1]

SameScale(a, b) == a.num * 10^(b.pow) = b.num * 10^(a.pow)

\* Metropolis.astep that tunes whenever the tune flag is set.
astep_tunes_every_step(steps_until_tune, tune_flag) == tune_flag

\* Metropolis.astep: "if not self.steps_until_tune and self.tune".
astep_tunes(steps_until_tune, tune_flag) ==
    steps_until_tune = 0 /\ tune_flag

\* Metropolis.astep: "if q_new is q", an identity test between the object
\* metrop_select returned and the proposed array.
TupleObject(r) == [type |-> "tuple", first |-> r[1]]
ArrayObject(q) == [type |-> "ndarray", first |-> q]
q_new_is_q(q_new, q) == TupleObject(q_new) = ArrayObject(q)

\* NUTS.__init__: self.step_size = step_scale / n**(1/4.)
InitialStepSize == [m |-> -1, S |-> 0]

\* NUTS.astep: self.step_size = exp(self.u - (self.m**.5/self.gamma)*self.Hbar),
\* which is exp(u) whenever Hbar is 0.
StepSize(m_, S) == [m |-> IF S = 0 THEN 0 ELSE m_, S |-> S]

NoAstep == [i |-> -1, tune |-> FALSE, tuned |-> FALSE, counted |-> FALSE,
           accepted |-> FALSE, scaling |-> [num |-> 1, pow |-> 0],
           step_size |-> InitialStepSize]

TuningIdle ==
    /\ ts_step = "none"
    /\ ts_draws = 0
    /\ ts_tune = NoTune
    /\ ts_i = 0
    /\ self_tune = FALSE
    /\ self_tune_interval = 1
    /\ self_steps_until_tune = 1
    /\ self_accepted = 0
    /\ self_scaling = [num |-> 1, pow |-> 0]
    /\ self_m = 1
    /\ self_Hbar = 0
    /\ self_step_size = InitialStepSize
    /\ ts_last = NoAstep

\* Metropolis.__init__(scaling=1., tune=tune_flag, tune_interval=interval)
\* and _iter_sample(draws, step, ..., tune=tune_at) up to the for loop.
sample_Metropolis(n, tune_at, interval, tune_flag) ==
    /\ ts_step = "none"
    /\ ts_step' = "Metropolis"
    /\ ts_draws' = n
    /\ ts_tune' = tune_at
    /\ ts_i' = 0
    /\ self_tune' = tune_flag
    /\ self_tune_interval' = interval
    /\ self_steps_until_tune' = interval
    /\ self_accepted' = 0
    /\ self_scaling' = [num |-> 1, pow |-> 0]
    /\ UNCHANGED <<self_m, self_Hbar, self_step_size, ts_last>>
    /\ UNCHANGED tuning_others

\* NUTS.__init__ and _iter_sample(draws, step, ..., tune=tune_at) up to the
\* for loop.
sample_NUTS(n, tune_at) ==
    /\ ts_step = "none"
    /\ ts_step' = "NUTS"
    /\ ts_draws' = n
    /\ ts_tune' = tune_at
    /\ ts_i' = 0
    /\ self_Hbar' = 0
    /\ self_m' = 1
    /\ self_step_size' = InitialStepSize
    /\ UNCHANGED <<self_tune, self_tune_interval, self_steps_until_tune,
                   self_accepted, self_scaling, ts_last>>
    /\ UNCHANGED tuning_others

\* One pass of the for loop of _iter_sample with a Metropolis step method:
\* "if i == tune: step = stop_tuning(step)", then Metropolis.astep.
Metropolis_astep(mr, logu) ==
    LET flag == IF ts_i = ts_tune /\ hasattr_tune(ts_step)
                THEN stop_tuning(self_tune) ELSE self_tune
        tunes == astep_tunes(self_steps_until_tune, flag)
        q_new == metrop_select(mr, logu, 1, 0)
        counted == q_new_is_q(q_new, 1)
    IN  /\ ts_step = "Metropolis"
        /\ ts_i < ts_draws
        /\ self_tune' = flag
        /\ self_scaling' = IF tunes
                           THEN metropolis_tune(self_scaling, self_accepted,
                                                self_tune_interval)
                           ELSE self_scaling
        /\ self_steps_until_tune' =
              (IF tunes THEN self_tune_interval ELSE self_steps_until_tune) - 1
        /\ self_accepted' = (IF tunes THEN 0 ELSE self_accepted)
                               + (IF counted THEN 1 ELSE 0)
        /\ ts_i' = ts_i + 1
        /\ ts_last' = [i |-> ts_i, tune |-> flag, tuned |-> tunes,
                       counted |-> counted, accepted |-> q_new[2],
                       scaling |-> self_scaling, step_size |-> self_step_size]
        /\ UNCHANGED <<ts_step, ts_draws, ts_tune, self_tune_interval, self_m,
                       self_Hbar, self_step_size>>
        /\ UNCHANGED tuning_others

\* One pass of the for loop of _iter_sample with a NUTS step method:
\* stop_tuning finds neither a tune attribute nor methods and returns the
\* step method as it is; then the end of NUTS.astep, after the trajectory.
NUTS_astep(gap) ==
    /\ ts_step = "NUTS"
    /\ ts_i < ts_draws
    /\ self_Hbar' = self_Hbar + gap
    /\ self_step_size' = StepSize(self_m, self_Hbar + gap)
    /\ self_m' = self_m + 1
    /\ ts_i' = ts_i + 1
    /\ ts_last' = [i |-> ts_i, tune |-> FALSE, tuned |-> FALSE,
                   counted |-> FALSE, accepted |-> FALSE,
                   scaling |-> self_scaling, step_size |-> self_step_size]
    /\ UNCHANGED <<ts_step, ts_draws, ts_tune, self_tune, self_tune_interval,
                   self_steps_until_tune, self_accepted, self_scaling>>
    /\ UNCHANGED tuning_others

TuningNext ==
    \/ \E n \in 1..MaxTuneDraws :
         \E tune_at \in {NoTune} \cup 0..n, interval \in 1..MaxInterval,
            tune_flag \in BOOLEAN :
              sample_Metropolis(n, tune_at, interval, tune_flag)
    \/ \E n \in 1..MaxTuneDraws :
         \E tune_at \in {NoTune} \cup 0..n : sample_NUTS(n, tune_at)
    \/ \E mr \in DeltaLogp : Metropolis_astep(mr, Fin(-1))
    \/ \E gap \in AcceptGaps : NUTS_astep(gap)

\* The step of index ts_last.i has just been taken.
PastTuneBoundary == ts_last.i >= 0 /\ ts_tune # NoTune /\ ts_last.i >= ts_tune

\* C15: no tuning adjustment is applied to any step method at a step past
\* the tune boundary: a step of index tune or more leaves the step method's
\* scaling and step size as they were.
NoAdjustmentPastTuneBoundary ==
    PastTuneBoundary =>
        /\ ~ts_last.tuned
        /\ SameScale(self_scaling, ts_last.scaling)
        /\ self_step_size = ts_last.step_size

\* C18: while its tune flag is set, a Metropolis step method rescales at
\* the start of the steps of index tune_interval, 2*tune_interval, ... and
\* at no other step, one rescaling each, and counts acceptances from zero
\* again at each rescaling.
RescalesOncePerInterval ==
    (ts_step = "Metropolis" /\ ts_last.i >= 0 /\ ts_last.tune) =>
        /\ ts_last.tuned <=>
              (ts_last.i > 0 /\ ts_last.i % self_tune_interval = 0)
        /\ self_scaling.pow = ts_last.i \div self_tune_interval
        /\ ts_last.tuned => self_accepted = (IF ts_last.counted THEN 1 ELSE 0)
        /\ ~ts_last.tuned => SameScale(self_scaling, ts_last.scaling)

\* Witness for C18: the second rescaling of a run, at the step of index
\* 2 * tune_interval.
SecondRescaling ==
    /\ ts_step = "Metropolis"
    /\ ts_last.tune
    /\ ts_last.tuned
    /\ ts_last.i = 2 * self_tune_interval
    /\ self_scaling.pow = 2
    /\ ~SameScale(self_scaling, ts_last.scaling)

\* C19: for every NUTS step taken after tuning has ended (index tune or
\* more), step_size is the same after the step as before it.
StepSizeFrozenAfterTuning ==
    (ts_step = "NUTS" /\ PastTuneBoundary) =>
        self_step_size = ts_last.step_size

\* C28: a Metropolis step adds one to self.accepted exactly when
\* metrop_select accepted its proposal.
AcceptedCountsAcceptances ==
    (ts_step = "Metropolis" /\ ts_last.i >= 0) =>
        (ts_last.counted <=> ts_last.accepted)


-----------------------------------------------------------------------------
(* Construction of Parameters (PyMC2/PyMCObjects.py Parameter.__init__ and *)
(* get_logp) and the first iterations of a sampler on them.  A Python      *)
(* value is its type and, for a float, its IEEE value; the comparison      *)
(* "logp <= self.d_neg_inf" is the Python 2 comparison of mixed types.     *)

MaxParams == 2        \* the model has Parameters 1..MaxParams
MaxInitIters == 2     \* iterations of the sampler that are followed

Params == 1..MaxParams
LogpFloats == Floats \cup {Fin(d_neg_inf)}
PyFloat(x) == [type |-> "float", v |-> x]
PyValues ==
    {PyFloat(x) : x \in LogpFloats}
    \cup {[type |-> t, v |-> Fin(0)] : t \in {"int", "NoneType", "str", "ndarray"}}

\* IEEE x <= y: false as soon as either side is NaN
FLeq(x, y) == FLess(x, y) \/ (x.k # "nan" /\ x = y)

\* Python 2 "x <= y" for y a float: numbers compare by value, None is below
\* everything, a str is above every number, a one-element array compares
\* its element.
py2_leq(x, y) ==
    CASE x.type = "NoneType" -> TRUE
      [] x.type = "str" -> FALSE
      [] OTHER -> FLeq(x.v, y)

isinstance_float(x) == x.type = "float"

\* Parameter.get_logp: "if logp <= self.d_neg_inf: raise ZeroProbability".
get_logp(logp) ==
    IF py2_leq(logp, Fin(d_neg_inf)) THEN "ZeroProbability" ELSE "returned"

NotBuilt == [type |-> "NoneType", v |-> Fin(0)]

ParamIdle ==
    /\ par_logp = [p \in Params |-> NotBuilt]
    /\ par_status = [p \in Params |-> "none"]
    /\ par_iters = 0

\* Parameter.__init__, its last statement: "if not isinstance(self.logp,
\* float): raise ValueError"; logp is what the log-probability function
\* returns at the initial value.
Parameter_init(p, logp) ==
    /\ par_status[p] = "none"
    /\ \A o \in Params : o < p => par_status[o] = "constructed"
    /\ par_logp' = [par_logp EXCEPT ![p] = logp]
    /\ par_status' = [par_status EXCEPT ![p] =
          IF get_logp(logp) = "ZeroProbability" THEN "ZeroProbability"
          ELSE IF ~isinstance_float(logp) THEN "ValueError"
          ELSE "constructed"]
    /\ UNCHANGED par_iters
    /\ UNCHANGED param_others

\* MCMC.sample on the model once every Parameter is constructed: one pass
\* of _loop.  Nothing in sample() or _loop looks at the log-probabilities
\* before the first step.
sample_iteration ==
    /\ \A p \in Params : par_status[p] = "constructed"
    /\ par_iters < MaxInitIters
    /\ par_iters' = par_iters + 1
    /\ UNCHANGED <<par_logp, par_status>>
    /\ UNCHANGED param_others

ParamNext ==
    \/ \E p \in Params, logp \in PyValues : Parameter_init(p, logp)
    \/ sample_iteration

\* The initial log-probabilities the claim names: negative infinity, NaN,
\* or a result that is not a float.
BadInitial(logp) ==
    \/ ~isinstance_float(logp)
    \/ logp.v = NInf
    \/ logp.v = NaN

\* C22: when a stochastic's log-probability at its initial value is
\* negative infinity, NaN or not a float, an error is raised before any
\* sampling iteration is executed.
BadInitialStopsBeforeSampling ==
    par_iters > 0 => \A p \in Params : ~BadInitial(par_logp[p])

-----------------------------------------------------------------------------
(* Assignment of step methods (pymc/MCMC.py, pymc3/sampling.py)            *)

MaxStochs == 2
MaxUse == 2
MaxMethods == 2

Stochs == 1..MaxStochs

\* Competence (arraystep.py): INCOMPATIBLE 0, COMPATIBLE 1, PREFERRED 2,
\* IDEAL 3.
INCOMPATIBLE == 0
COMPATIBLE == 1
PREFERRED == 2
IDEAL == 3

\* What the competence methods look at: var.dtype in continuous_types,
\* in bool_types (a Bernoulli), a Categorical with k = 2 and any other
\* variable of a discrete dtype.
VarKinds == {"continuous", "bool", "categorical2", "discrete"}
discrete_types == {"bool", "categorical2", "discrete"}

\* The step-method classes of pymc3/step_methods; each inherits
\* BlockedStep._competence.
BlockedStepClasses == {"NUTS", "HamiltonianMC", "Metropolis", "BinaryMetropolis"}

\* Classes a caller passes in methods that define _competence(cls, var)
\* themselves, with the one argument assign_step_methods passes, and
\* report one rank for every variable.
OwnClasses == {"OwnIncompatible", "OwnCompatible"}

StepClasses == BlockedStepClasses \cup OwnClasses

\* The competence static methods: NUTS.competence, HamiltonianMC.competence,
\* Metropolis.competence and BinaryMetropolis.competence.
competence(cls, kind) ==
    CASE cls = "NUTS" -> IF kind = "continuous" THEN IDEAL ELSE INCOMPATIBLE
      [] cls = "HamiltonianMC" ->
            IF kind \in discrete_types THEN INCOMPATIBLE ELSE COMPATIBLE
      [] cls = "Metropolis" -> IF kind \in discrete_types THEN 2 ELSE 1
      [] cls = "BinaryMetropolis" ->
            IF kind = "bool" THEN 3
            ELSE IF kind = "categorical2" THEN 3
            ELSE 0
      [] cls = "OwnIncompatible" -> INCOMPATIBLE
      [] OTHER -> COMPATIBLE

\* method._competence(var) as assign_step_methods calls it.
\* BlockedStep._competence(cls, vars, have_grad) has two parameters, so
\* the call with var alone raises TypeError before the body runs; a class
\* with its own _competence(cls, var) returns the list of its competence.
_competence(cls, kind) ==
    IF cls \in BlockedStepClasses
    THEN [raised |-> "TypeError", value |-> <<>>]
    ELSE [raised |-> "none", value |-> <<competence(cls, kind)>>]

\* max(methods, key=...): the key is computed for every method in turn
\* and the first method with the largest key is returned; an exception
\* in a key ends the call, an empty methods is a ValueError.
max_by_competence(methods, kind) ==
    IF Len(methods) = 0 THEN "ValueError"
    ELSE IF \E i \in 1..Len(methods) : _competence(methods[i], kind).raised # "none"
    THEN "TypeError"
    ELSE LET key(i) == _competence(methods[i], kind).value[1]
             best == CHOOSE i \in 1..Len(methods) :
                        /\ \A j \in 1..Len(methods) : key(j) <= key(i)
                        /\ \A j \in 1..(i - 1) : key(j) < key(i)
         IN methods[best]

NotSelected == "none"

\* What assign_step_methods does for the free variables with the given
\* kinds: the first variable outside assigned_vars whose max() raises ends
\* the call with that exception; otherwise every such variable has its
\* selected class.
selection(kinds, assigned, methods) ==
    [v \in Stochs |->
        IF v \in assigned THEN NotSelected
        ELSE max_by_competence(methods, kinds[v])]

Exceptions == {"TypeError", "ValueError"}

\* ---- pymc/MCMC.py
\* A run is of one sampler: an MCMC with its step_method_dict, or a call
\* of assign_step_methods on a pymc3 model.

\* A step method made by use_step_method (auto FALSE) or by assign_method
\* inside _assign_step_methods (auto TRUE); found is the number of step
\* methods the stochastic had when assign_method was called for it.
UserMethod(S) == [auto |-> FALSE, stochastics |-> S, found |-> 0]
AutoMethod(s, n) == [auto |-> TRUE, stochastics |-> {s}, found |-> n]

\* _assign_step_methods: "if len(self.step_method_dict[s])==0".
needs_method_always(d, s) == TRUE
needs_method(d, s) == Len(d[s]) = 0

\* assign_method(s) of StepMethods: a step method handling s.
assign_method(s, n) == AutoMethod(s, n)

AssignIdle ==
    /\ step_method_dict = [s \in Stochs |-> <<>>]
    /\ step_methods = {}
    /\ mc_assigned = FALSE
    /\ free_RVs = [v \in Stochs |-> "continuous"]
    /\ assigned_vars = {}
    /\ methods_arg = <<>>
    /\ selected_steps = [v \in Stochs |-> NotSelected]
    /\ assign_out = "none"

\* MCMC.use_step_method: the new method is appended to the list of every
\* stochastic it handles.
use_step_method(S) ==
    /\ assign_out = "none"
    /\ \A s \in S : Len(step_method_dict[s]) < MaxUse
    /\ step_method_dict' = [s \in Stochs |->
          IF s \in S THEN Append(step_method_dict[s], UserMethod(S))
          ELSE step_method_dict[s]]
    /\ UNCHANGED <<step_methods, mc_assigned, free_RVs, assigned_vars,
                   methods_arg, selected_steps, assign_out>>
    /\ UNCHANGED assign_others

\* MCMC._assign_step_methods, the first statement of sample().
_assign_step_methods ==
    /\ assign_out = "none"
    /\ step_method_dict' = [s \in Stochs |->
          IF needs_method(step_method_dict, s)
          THEN Append(step_method_dict[s],
                      assign_method(s, Len(step_method_dict[s])))
          ELSE step_method_dict[s]]
    /\ step_methods' = UNION {{step_method_dict'[s][i] :
                                  i \in 1..Len(step_method_dict'[s])} :
                              s \in Stochs}
    /\ mc_assigned' = TRUE
    /\ UNCHANGED <<free_RVs, assigned_vars, methods_arg, selected_steps,
                   assign_out>>
    /\ UNCHANGED assign_others

\* ---- pymc3/sampling.py

\* The tuples of distinct classes a caller can pass as methods.
MethodTuples ==
    {m \in UNION {[1..n -> StepClasses] : n \in 0..MaxMethods} :
        \A i, j \in 1..Len(m) : i # j => m[i] # m[j]}

\* assign_step_methods(model, step, methods): kinds are the model's free
\* variables, assigned the variables of the steps the caller gave.
assign_step_methods ==
    /\ assign_out = "none"
    /\ ~mc_assigned
    /\ \A s \in Stochs : step_method_dict[s] = <<>>
    /\ \E kinds \in [Stochs -> VarKinds], assigned \in SUBSET Stochs,
          methods \in MethodTuples :
          LET sel == selection(kinds, assigned, methods)
              raised == {v \in Stochs : sel[v] \in Exceptions}
          IN /\ free_RVs' = kinds
             /\ assigned_vars' = assigned
             /\ methods_arg' = methods
             /\ IF raised # {}
                THEN /\ selected_steps' = [v \in Stochs |-> NotSelected]
                     /\ assign_out' = sel[CHOOSE v \in raised :
                                              \A w \in raised : v <= w]
                ELSE /\ selected_steps' = sel
                     /\ assign_out' = "returned"
    /\ UNCHANGED <<step_method_dict, step_methods, mc_assigned>>
    /\ UNCHANGED assign_others

AssignNext ==
    \/ \E S \in (SUBSET Stochs) \ {{}} : use_step_method(S)
    \/ _assign_step_methods
    \/ assign_step_methods

HighestCompetenceSelected ==
    assign_out # "none" /\ Len(methods_arg) > 0 =>
       \A v \in Stochs \ assigned_vars :
          /\ selected_steps[v] # NotSelected
          /\ \A i \in 1..Len(methods_arg) :
                competence(methods_arg[i], free_RVs[v])
                   <= competence(selected_steps[v], free_RVs[v])

\* C30: a class selected automatically for a variable is never one whose
\* competence for that variable is INCOMPATIBLE.
NeverIncompatibleSelected ==
    \A v \in Stochs :
       selected_steps[v] # NotSelected =>
          competence(selected_steps[v], free_RVs[v]) > INCOMPATIBLE

MaxResumedIter == 3

\* A run of MCMC.sample that is paused, halted or interrupted and goes on
\* by calling _loop again.
ResumeNext ==
    \/ \E iter \in 1..MaxResumedIter :
         \E burn \in 0..Min(iter, MaxBurn), thin \in 1..MaxThin,
            tune_interval \in 1..MaxTuneInterval :
              MCMC_sample(iter, burn, thin, tune_interval)
    \/ MCMC_loop_test
    \/ \E tuning_count \in 0..1 : MCMC_loop_tune(tuning_count)
    \/ \E m \in Methods : step_begin(m)
    \/ \E m \in Methods : step_end(m)
    \/ MCMC_loop_tally
    \/ MCMC_loop_incr
    \/ MCMC_KeyboardInterrupt
    \/ \E s \in {"paused", "halt"} : request(s)
    \/ MCMC_loop_reenter

\* _loop is entered again after a pause, a halt or a KeyboardInterrupt.
Reentered ==
    /\ loop_driver = "MCMC"
    /\ loop_pc = "returned"
    /\ loop_pc' = "check"

\* C26: a resumed run goes on with the first iteration not yet completed
\* and every iteration index is executed exactly once: when the loop is
\* entered again, no tune, step or tally of the index it starts with has
\* been executed before.
ResumeRepeatsNothing ==
    [][Reentered => loop_cur.events = <<>>]_vars

-----------------------------------------------------------------------------
(* Traces of successive runs (PyMC2/database/ram.py, sqlite.py)            *)

MaxRuns == 3
MaxRunLen == 2

\* The value tallied at position i of run r.
Sample(r, i) == <<r, i>>
RunSamples(r, n) == [i \in 1..n |-> Sample(r, i)]

\* The chain argument of gettrace: left out, None or an integer.
ChainDefault == [kind |-> "default", k |-> 0]
ChainNone == [kind |-> "None", k |-> 0]
ChainInt(k) == [kind |-> "int", k |-> k]
ChainArgs == {ChainDefault, ChainNone} \cup {ChainInt(k) : k \in (0 - MaxRuns)..MaxRuns}

RECURSIVE concatenate(_)
concatenate(arrays) ==
    IF arrays = <<>> THEN <<>>
    ELSE Head(arrays) \o concatenate(Tail(arrays))

\* ram.Trace.gettrace(chain=-1) with burn=0, thin=1:
\* "if chain is not None: return self._trace[chain][slicing]
\*  else: return concatenate(self._trace)[slicing]".
ram_gettrace(_trace, chain) ==
    LET k == IF chain.kind = "default" THEN -1 ELSE chain.k
        n == Len(_trace)
    IN  IF chain.kind = "None" THEN [raised |-> "none", out |-> concatenate(_trace)]
        ELSE IF k >= 0 /\ k < n THEN [raised |-> "none", out |-> _trace[k + 1]]
        ELSE IF k < 0 /\ 0 - k <= n THEN [raised |-> "none", out |-> _trace[n + k + 1]]
        ELSE [raised |-> "IndexError", out |-> <<>>]

\* SELECT MAX(trace) FROM the table.
max_trace(rows) ==
    IF rows = <<>> THEN 0
    ELSE CHOOSE t \in {rows[i].trace : i \in 1..Len(rows)} :
            \A i \in 1..Len(rows) : rows[i].trace <= t

\* SELECT * FROM the table WHERE trace=chain, in recid order.
RECURSIVE select_trace(_, _)
select_trace(rows, chain) ==
    IF rows = <<>> THEN <<>>
    ELSE IF Head(rows).trace = chain
         THEN <<Head(rows).v>> \o select_trace(Tail(rows), chain)
         ELSE select_trace(Tail(rows), chain)

\* sqlite.Trace.gettrace(chain=None) with burn=0, thin=1:
\* "if not chain: chain = MAX(trace)", then the rows of that chain.
sqlite_gettrace(rows, chain) ==
    LET not_chain == chain.kind \in {"default", "None"} \/ chain.k = 0
        c == IF not_chain THEN max_trace(rows) ELSE chain.k
    IN  [raised |-> "none", out |-> select_trace(rows, c)]

\* runs is the number of sample() calls made before the read.
NotRead == [called |-> FALSE, chain |-> ChainDefault, runs |-> 0,
            raised |-> "none", out |-> <<>>]

DbIdle ==
    /\ db_backend = "none"
    /\ ram_trace = <<>>
    /\ sql_rows = <<>>
    /\ db_runs = <<>>
    /\ db_got = NotRead

\* MCMC(model, db='ram') or MCMC(model, db='sqlite'): Database.__init__.
Database_init(backend) ==
    /\ db_backend = "none"
    /\ db_backend' = backend
    /\ UNCHANGED <<ram_trace, sql_rows, db_runs, db_got>>
    /\ UNCHANGED db_others

\* One sample() call that tallies n values.  ram: _initialize(length)
\* appends an array and tally(index) writes self._trace[-1][index].
\* sqlite: _initialize sets current_trace to 1 for a new table and to
\* MAX(trace) + 1 otherwise, and tally inserts a row with current_trace.
db_sample(n) ==
    LET r == Len(db_runs) + 1
        current_trace == IF max_trace(sql_rows) # 0
                         THEN max_trace(sql_rows) + 1 ELSE 1
    IN  /\ db_backend # "none"
        /\ Len(db_runs) < MaxRuns
        /\ db_runs' = Append(db_runs, n)
        /\ IF db_backend = "ram"
           THEN /\ ram_trace' = Append(ram_trace, RunSamples(r, n))
                /\ UNCHANGED sql_rows
           ELSE /\ sql_rows' = sql_rows \o
                      [i \in 1..n |-> [trace |-> current_trace, v |-> Sample(r, i)]]
                /\ UNCHANGED ram_trace
        /\ UNCHANGED <<db_backend, db_got>>
        /\ UNCHANGED db_others

\* M.e.trace(chain=...) after at least one run.
gettrace(chain) ==
    LET res == IF db_backend = "ram" THEN ram_gettrace(ram_trace, chain)
               ELSE sqlite_gettrace(sql_rows, chain)
    IN  /\ db_backend # "none"
        /\ Len(db_runs) >= 1
        /\ db_got' = [called |-> TRUE, chain |-> chain, runs |-> Len(db_runs),
                      raised |-> res.raised, out |-> res.out]
        /\ UNCHANGED <<db_backend, ram_trace, sql_rows, db_runs>>
        /\ UNCHANGED db_others

DbNext ==
    \/ \E backend \in {"ram", "sqlite"} : Database_init(backend)
    \/ \E n \in 1..MaxRunLen : db_sample(n)
    \/ \E chain \in ChainArgs : gettrace(chain)

\* The samples of run r, and of all runs made before the read in run order.
SamplesOfRun(r) == RunSamples(r, db_runs[r])
SamplesOfAllRuns == concatenate([r \in 1..db_got.runs |-> SamplesOfRun(r)])

\* The run that chain = k names: chains count from 0 in the ram backend
\* and from 1 in the sqlite backend.
RunOfChain(k) == IF db_backend = "ram" THEN k + 1 ELSE k

\* C27: a trace read with the default chain holds the samples of the most
\* recent run only, read with chain = k those of run k only, and read with
\* chain = None those of all runs in run order.
ChainsReadInRunOrder ==
    db_got.called =>
       CASE db_got.chain.kind = "default" ->
               db_got.out = SamplesOfRun(db_got.runs)
         [] db_got.chain.kind = "None" ->
               db_got.out = SamplesOfAllRuns
         [] OTHER ->
               RunOfChain(db_got.chain.k) \in 1..db_got.runs =>
                  db_got.out = SamplesOfRun(RunOfChain(db_got.chain.k))

-----------------------------------------------------------------------------
(* Repeated rejection (pymc/gp/PyMC_objects.py GPParentMetropolis)         *)

MaxProposals == 3
MaxRejects == 2

\* The realizations a GP-valued child f can take.
Realizations == 0..MaxVal

Unchanged(x) == [value |-> x, last_value |-> x]

NoProposal == [n |-> 0, before_s |-> 0, before_f |-> 0, rejects |-> 0,
               inner |-> "none"]

GpIdle ==
    /\ gp_stochastic = Unchanged(0)
    /\ gp_f = Unchanged(0)
    /\ gp_proposal = NoProposal

\* metro_class.reject(metro_method), the wrapped class's own reject: the
\* stochastic goes back to its last value.
metro_class_reject(s) == revert(s.value, s.last_value)

\* propose_with_realization: the wrapped propose() sets the stochastic to
\* cand; reading stochastic.logp raises ZeroProbability at a forbidden
\* value, and Realization(...) may raise LinAlgError before f.value is
\* assigned; either way "self.metro_class.reject(metro_method)" follows
\* and f is left as it was.  Otherwise f gets the new realization r.
propose_with_realization(cand, r, LinAlgError) ==
    LET proposed == set_value(gp_stochastic.value, gp_stochastic.last_value, cand)
        inner == IF ZeroProbability(cand) THEN "ZeroProbability"
                 ELSE IF LinAlgError THEN "LinAlgError" ELSE "none"
    IN  /\ gp_proposal.n < MaxProposals
        /\ gp_stochastic' = IF inner # "none" THEN metro_class_reject(proposed)
                            ELSE proposed
        /\ gp_f' = IF inner # "none" THEN gp_f
                   ELSE set_value(gp_f.value, gp_f.last_value, r)
        /\ gp_proposal' = [n |-> gp_proposal.n + 1,
                           before_s |-> gp_stochastic.value,
                           before_f |-> gp_f.value,
                           rejects |-> IF inner # "none" THEN 1 ELSE 0,
                           inner |-> inner]
        /\ UNCHANGED gp_others

\* reject_with_realization, the reject() of the wrapped method:
\* "self.metro_class.reject(metro_method)", then f.revert() for f in fs.
reject_with_realization ==
    /\ gp_proposal.n > 0
    /\ gp_proposal.rejects < MaxRejects
    /\ gp_stochastic' = metro_class_reject(gp_stochastic)
    /\ gp_f' = revert(gp_f.value, gp_f.last_value)
    /\ gp_proposal' = [gp_proposal EXCEPT !.rejects = @ + 1]
    /\ UNCHANGED gp_others

GpNext ==
    \/ \E cand \in Candidates, r \in Realizations, LinAlgError \in BOOLEAN :
          propose_with_realization(cand, r, LinAlgError)
    \/ reject_with_realization

\* C29: once the proposal made last has been rejected, whether by one
\* call of reject or by several, the stochastic and its GP-valued child
\* hold the values they had before that proposal.
RejectedTwiceStillRestored ==
    gp_proposal.rejects >= 1 =>
       /\ gp_stochastic.value = gp_proposal.before_s
       /\ gp_f.value = gp_proposal.before_f

InitGraph == GraphInit /\ SelIdle /\ StepInit /\ NutsIdle /\ LoopIdle /\ PushIdle /\ LazyIdle /\ BlanketIdle /\ TuningIdle /\ ParamIdle /\ AssignIdle /\ DbIdle /\ GpIdle
SpecGraph == InitGraph /\ [][GraphNext]_vars

InitSelect == GraphInit /\ SelInit /\ StepInit /\ NutsIdle /\ LoopIdle /\ PushIdle /\ LazyIdle /\ BlanketIdle /\ TuningIdle /\ ParamIdle /\ AssignIdle /\ DbIdle /\ GpIdle
SpecSelect == InitSelect /\ [][SelNext]_vars

InitStep == GraphInit /\ SelIdle /\ StepInit /\ NutsIdle /\ LoopIdle /\ PushIdle /\ LazyIdle /\ BlanketIdle /\ TuningIdle /\ ParamIdle /\ AssignIdle /\ DbIdle /\ GpIdle
SpecStep == InitStep /\ [][StepNext]_vars

InitNuts == GraphInit /\ SelIdle /\ StepInit /\ NutsIdle /\ LoopIdle /\ PushIdle /\ LazyIdle /\ BlanketIdle /\ TuningIdle /\ ParamIdle /\ AssignIdle /\ DbIdle /\ GpIdle
SpecNuts == InitNuts /\ [][NutsNext]_vars

InitLoop == GraphInit /\ SelIdle /\ StepInit /\ NutsIdle /\ LoopIdle /\ PushIdle /\ LazyIdle /\ BlanketIdle /\ TuningIdle /\ ParamIdle /\ AssignIdle /\ DbIdle /\ GpIdle
SpecLoop == InitLoop /\ [][LoopNext]_vars

InitPush == GraphInit /\ SelIdle /\ StepInit /\ NutsIdle /\ LoopIdle /\ PushIdle /\ LazyIdle /\ BlanketIdle /\ TuningIdle /\ ParamIdle /\ AssignIdle /\ DbIdle /\ GpIdle
SpecPush == InitPush /\ [][PushNext]_vars

InitLazy == GraphInit /\ SelIdle /\ StepInit /\ NutsIdle /\ LoopIdle /\ PushIdle /\ LazyIdle /\ BlanketIdle /\ TuningIdle /\ ParamIdle /\ AssignIdle /\ DbIdle /\ GpIdle
SpecLazy == InitLazy /\ [][LazyNext]_vars

InitBlanket == GraphInit /\ SelIdle /\ StepInit /\ NutsIdle /\ LoopIdle /\ PushIdle /\ LazyIdle /\ BlanketInit /\ TuningIdle /\ ParamIdle /\ AssignIdle /\ DbIdle /\ GpIdle
SpecBlanket == InitBlanket /\ [][BlanketNext]_vars

InitTuning == GraphInit /\ SelIdle /\ StepInit /\ NutsIdle /\ LoopIdle /\ PushIdle /\ LazyIdle /\ BlanketIdle /\ TuningIdle /\ ParamIdle /\ AssignIdle /\ DbIdle /\ GpIdle
SpecTuning == InitTuning /\ [][TuningNext]_vars

InitParam == GraphInit /\ SelIdle /\ StepInit /\ NutsIdle /\ LoopIdle /\ PushIdle /\ LazyIdle /\ BlanketIdle /\ TuningIdle /\ ParamIdle /\ AssignIdle /\ DbIdle /\ GpIdle
SpecParam == InitParam /\ [][ParamNext]_vars

InitAssign == GraphInit /\ SelIdle /\ StepInit /\ NutsIdle /\ LoopIdle /\ PushIdle /\ LazyIdle /\ BlanketIdle /\ TuningIdle /\ ParamIdle /\ AssignIdle /\ DbIdle /\ GpIdle
SpecAssign == InitAssign /\ [][AssignNext]_vars

InitResume == GraphInit /\ SelIdle /\ StepInit /\ NutsIdle /\ LoopIdle /\ PushIdle /\ LazyIdle /\ BlanketIdle /\ TuningIdle /\ ParamIdle /\ AssignIdle /\ DbIdle /\ GpIdle
SpecResume == InitResume /\ [][ResumeNext]_vars

InitDb == GraphInit /\ SelIdle /\ StepInit /\ NutsIdle /\ LoopIdle /\ PushIdle /\ LazyIdle /\ BlanketIdle /\ TuningIdle /\ ParamIdle /\ AssignIdle /\ DbIdle /\ GpIdle
SpecDb == InitDb /\ [][DbNext]_vars

InitGp == GraphInit /\ SelIdle /\ StepInit /\ NutsIdle /\ LoopIdle /\ PushIdle /\ LazyIdle /\ BlanketIdle /\ TuningIdle /\ ParamIdle /\ AssignIdle /\ DbIdle /\ GpIdle
SpecGp == InitGp /\ [][GpNext]_vars

=============================================================================
